---- MODULE Spec2Model ----
(***************************************************************************)
(* Verification model of the Mondrian-blocks enumerator                    *)
(* (src/mondrian_solver.py): piece geometry, the placement table, the      *)
(* bit-set exact-cover engine solve_exact_cover, the layout aggregator     *)
(* build_index and the index store save_index / load_index; and of the     *)
(* dancing-links engine DancingLinks.search (src/tiling_solver.py).        *)
(*                                                                         *)
(* The source fixes one board (8 x 8) and one catalogue (11 pieces).  The  *)
(* model keeps every function as the source computes it and runs it over   *)
(* a family of small boards and catalogues (Catalogues below), selected by *)
(* the variable cat, so that the set of all tilings can be enumerated      *)
(* independently of the engine.  A Python int used as a bit mask is the    *)
(* set of its 1-bit positions: & is \cap, | is \cup, ^ is the symmetric    *)
(* difference.  Python lists are kept 0-based as functions on 0..n-1       *)
(* (ALL_ROWS, COL_TO_ROWS) so that row indices and list positions have the *)
(* values they have in the source; stacks are sequences.                   *)
(***************************************************************************)
EXTENDS Integers, Sequences, FiniteSets, TLC

VARIABLES
    cat,              \* index of the board + catalogue in use (module globals)
    limit,            \* solve_exact_cover / build_index argument: None or an int
    use_callback,     \* whether solve_exact_cover got a layout_callback
    pc,               \* position of the generator solve_exact_cover
    col_order,        \* solve_exact_cover local: the columns as choose_next_col scans them
    unavailable_cols, \* solve_exact_cover local: covered columns
    chosen_rows,      \* solve_exact_cover local
    stack,            \* solve_exact_cover local: frames (col, ridx, next_pos)
    solutions_found,  \* solve_exact_cover local
    solution,         \* the list handed to the callback / yielded last
    yielded,          \* history: the set of solutions yielded so far
    rejected          \* history: the callback has returned False

VARIABLES
    phase,            \* position of the build command: build_index, save_index, load_index
    M,                \* build_index argument max_solutions_per_layout
    counter,          \* build_index local: key -> count (keys present only)
    skipped_layouts,  \* build_index local: the dead set
    n,                \* build_index local: solutions received
    skipped_count,    \* build_index local: solutions skipped for dead keys
    interrupted,      \* build_index took its KeyboardInterrupt branch
    file,             \* contents of the index file (the JSON object), or None
    layouts,          \* result of load_index, or None
    seen,             \* history: key -> number of valid solutions delivered with it
    invalid_seen      \* history: solutions delivered whose black count was not 6

VARIABLES
    config,           \* index of the TilingSolver board and pieces in use
    nodes,            \* the fields of the nodes of the DancingLinks object
    dlx_solution,     \* DancingLinks.solution
    search_stopped,   \* DancingLinks._search_stopped
    frames,           \* the active calls of search that are in their loop: (col, row)
    dpc,              \* position of the innermost call of search
    calls,            \* top-level calls of search made so far
    visited,          \* history: the solutions shown to the visitor, in order
    refused           \* history: the visitor has returned False

VARIABLES
    black_positions_set, \* solve_iteratively local: the position keys recorded
    black_json_data      \* solve_iteratively local: the combinations recorded, in order

VARIABLES
    black_pieces,     \* the argument of calculate_difficulty_score
    score_data        \* the list of the records it has returned: empty before the call

VARIABLES
    BOARD,            \* the module being imported: BOARD_W, BOARD_H and RAW_PIECES
    orientations,     \* the dict ORIENTATIONS as the list of its values: empty before line 133
    pname,            \* position in PIECE_ORDER of the loop of lines 170-172
    ALL_ROWS          \* the list ALL_ROWS so far

VARIABLES
    matrix,           \* DLX.__init__ argument (src/test.py): the rows, lists of column indices
    num_cols,         \* DLX.__init__ argument
    max_solutions,    \* DLX.max_solutions
    solutions_count,  \* DLX.solutions_count
    timed_out,        \* history: the timeout test of search has fired in this call
    num_solutions,    \* the value count_solutions returned last, or None
    generator,        \* index of the MondrianDLXGenerator board and pieces in use
    attempt,          \* _generate_single_internal local
    black_cells,      \* _generate_single_internal local: the layout of this attempt
    result            \* what _generate_single_internal returned: empty while it runs

VARIABLES
    futures,          \* generate_puzzle local: the state of each future submitted
    consumed,         \* the futures as_completed has yielded to the loop body
    elapsed,          \* the timeout of as_completed has elapsed
    outcome           \* how generate_puzzle ended, "running" until then

engineVars == <<cat, limit, use_callback, pc, col_order, unavailable_cols, chosen_rows, stack,
                solutions_found, solution, yielded, rejected>>
buildVars == <<phase, M, counter, skipped_layouts, n, skipped_count, interrupted,
               file, layouts, seen, invalid_seen>>
dlxVars == <<config, nodes, dlx_solution, search_stopped, frames, dpc, calls,
             visited, refused>>
reportVars == <<black_positions_set, black_json_data>>
scoreVars == <<black_pieces, score_data>>
tableVars == <<BOARD, orientations, pname, ALL_ROWS>>
genVars == <<matrix, num_cols, max_solutions, solutions_count, timed_out, num_solutions,
            generator, attempt, black_cells, result, futures, consumed, elapsed, outcome>>
poolVars == <<futures, consumed, elapsed, outcome>>
vars == <<engineVars, buildVars, dlxVars, reportVars, scoreVars, tableVars, genVars>>

\* Python's None, for a column, a limit or a list position: no integer the
\* source can hold there
None == -1

(***************************************************************************)
(* Generic helpers (Python built-ins used by the source).                  *)
(***************************************************************************)
Min(S) == CHOOSE x \in S : \A y \in S : x <= y
Max(S) == CHOOSE x \in S : \A y \in S : y <= x

\* the set of the elements of a list
Range(f) == {f[i] : i \in DOMAIN f}

\* a 0-based list (function on 0..n-1) from a sequence
ZeroBased(s) == [i \in 0..(Len(s) - 1) |-> s[i + 1]]
LenZ(f) == Cardinality(DOMAIN f)

RECURSIVE Flatten(_)
\* concatenation of a sequence of sequences (list.extend in a loop)
Flatten(ss) == IF ss = << >> THEN << >> ELSE Head(ss) \o Flatten(Tail(ss))

RECURSIVE SortInts(_)
\* sorted(S) for a set of integers
SortInts(S) == IF S = {} THEN << >> ELSE <<Min(S)>> \o SortInts(S \ {Min(S)})

RECURSIVE Insert(_, _)
Insert(x, s) ==
    IF s = << >> THEN <<x>>
    ELSE IF x <= Head(s) THEN <<x>> \o s
    ELSE <<Head(s)>> \o Insert(x, Tail(s))

RECURSIVE sorted(_)
\* sorted(list) for a list of integers (duplicates kept)
sorted(s) == IF s = << >> THEN << >> ELSE Insert(Head(s), sorted(Tail(s)))

\* tuple comparison of two (x, y) pairs
PairLess(a, b) == a[1] < b[1] \/ (a[1] = b[1] /\ a[2] < b[2])

RECURSIVE SortPairs(_)
\* sorted(S) for a set of (x, y) pairs
SortPairs(S) ==
    IF S = {} THEN << >>
    ELSE LET m == CHOOSE a \in S : \A b \in S \ {a} : PairLess(a, b)
         IN  <<m>> \o SortPairs(S \ {m})

\* tuple comparison of two tuples of pairs (lexicographic, shorter prefix first)
TupleLess(s, t) ==
    \/ \E i \in 1..Min({Len(s), Len(t)}) :
          /\ \A j \in 1..(i - 1) : s[j] = t[j]
          /\ PairLess(s[i], t[i])
    \/ /\ Len(s) < Len(t)
       /\ \A j \in 1..Len(s) : s[j] = t[j]

RECURSIVE SortTuples(_)
\* sorted(S) for a set of tuples of pairs
SortTuples(S) ==
    IF S = {} THEN << >>
    ELSE LET m == CHOOSE a \in S : \A b \in S \ {a} : TupleLess(a, b)
         IN  <<m>> \o SortTuples(S \ {m})

(***************************************************************************)
(* 1. The boards and catalogues.  Rect(w, h) is the source's               *)
(*    [(x, y) for x in range(w) for y in range(h)].                        *)
(***************************************************************************)
Rect(w, h) == {<<x, y>> : x \in 0..(w - 1), y \in 0..(h - 1)}

Piece(name, w, h) == [name |-> name, cells |-> Rect(w, h)]

BLACK_NAMES == {"K_1x3", "K_1x2", "K_1x1"}

\* the number of black cells black_cells_from_solution insists on
BLACK_COUNT == 6

Catalogues == <<
    \* 1: 4 x 3 board, one coloured piece and the three black pieces (area 12)
    [W |-> 4, H |-> 3,
     RAW_PIECES |-> << Piece("Y_2x3", 2, 3), Piece("K_1x3", 1, 3),
                       Piece("K_1x2", 1, 2), Piece("K_1x1", 1, 1) >>],
    \* 2: 3 x 2 board tiled by the three black pieces alone (area 6)
    [W |-> 3, H |-> 2,
     RAW_PIECES |-> << Piece("K_1x3", 1, 3), Piece("K_1x2", 1, 2),
                       Piece("K_1x1", 1, 1) >>],
    \* 3: 3 x 3 board, catalogue area 8: no tiling, every piece fits
    [W |-> 3, H |-> 3,
     RAW_PIECES |-> << Piece("B_2x2", 2, 2), Piece("K_1x3", 1, 3),
                       Piece("K_1x1", 1, 1) >>],
    \* 4: 3 x 2 board with a piece that fits nowhere: no tiling
    [W |-> 3, H |-> 2,
     RAW_PIECES |-> << Piece("W_1x4", 1, 4), Piece("K_1x2", 1, 2) >>],
    \* 5: 3 x 2 board, a catalogue whose black pieces cover 5 cells, not 6
    [W |-> 3, H |-> 2,
     RAW_PIECES |-> << Piece("K_1x3", 1, 3), Piece("K_1x2", 1, 2),
                       Piece("W_1x1", 1, 1) >>],
    \* 6: 3 x 2 board and the single piece that fills it
    [W |-> 3, H |-> 2,
     RAW_PIECES |-> << Piece("Y_2x3", 2, 3) >>],
    \* 7: 4 x 2 board, every piece fits, no tiling: once B_2x2 lies in a
    \* corner K_1x3 fits nowhere while other columns still have rows
    [W |-> 4, H |-> 2,
     RAW_PIECES |-> << Piece("B_2x2", 2, 2), Piece("K_1x3", 1, 3),
                       Piece("K_1x1", 1, 1) >>]
>>

CatIds == 1..Len(Catalogues)

\* The module-level values below are functions of the catalogue record C
\* (board and RAW_PIECES); Globals(C) collects them as the source's globals.
PIECE_ORDER(C) == [i \in 0..(Len(C.RAW_PIECES) - 1) |-> C.RAW_PIECES[i + 1].name]
N_PIECES(C) == Len(C.RAW_PIECES)
N_CELLS(C) == C.W * C.H
N_COLS(C) == N_CELLS(C) + N_PIECES(C)

(***************************************************************************)
(* 2. Geometry helpers.                                                    *)
(***************************************************************************)
rotate90(cells) == {<<p[2], 0 - p[1]>> : p \in cells}
flip_x(cells) == {<<0 - p[1], p[2]>> : p \in cells}
flip_y(cells) == {<<p[1], 0 - p[2]>> : p \in cells}

\* the sorted tuple of the cells where they are
normalise_in_place(cells) == SortPairs(cells)
\* translate to min x = min y = 0 and return the sorted tuple
normalise(cells) ==
    LET min_x == Min({p[1] : p \in cells})
        min_y == Min({p[2] : p \in cells})
    IN  SortPairs({<<p[1] - min_x, p[2] - min_y>> : p \in cells})

RECURSIVE Rotations(_, _)
\* the value of `shapes` after k passes of the loop of all_orientations
Rotations(cells, k) == IF k = 0 THEN cells ELSE rotate90(Rotations(cells, k - 1))

\* the loop body without the rotation of `shapes`
FlippedUnrotated(cells, k, fx, fy) ==
    LET a == IF fx THEN flip_x(cells) ELSE cells
    IN  IF fy THEN flip_y(a) ELSE a
\* one candidate of the loop body: the k-th rotation, flipped as asked
Flipped(cells, k, fx, fy) ==
    LET r == Rotations(cells, k)
        a == IF fx THEN flip_x(r) ELSE r
    IN  IF fy THEN flip_y(a) ELSE a

all_orientations(cells) ==
    {normalise(Flipped(cells, k, fx, fy)) : k \in 1..4, fx \in BOOLEAN, fy \in BOOLEAN}

\* ORIENTATIONS[name], given RAW_PIECES[name]
ORIENTATIONS(cells) == SortTuples(all_orientations(cells))

(***************************************************************************)
(* 3. Placement enumeration: the exact-cover rows.                         *)
(***************************************************************************)
\* cells numbered from 1
cell_index_from_one(C, x, y) == y * C.W + x + 1
cell_index(C, x, y) == y * C.W + x

\* the rows of one orientation with the range of dx used for dy as well
ShapeRowsSquare(C, i, name, shape) ==
    LET w == 1 + Max({shape[j][1] : j \in 1..Len(shape)})
        nx == IF C.W - w + 1 > 0 THEN C.W - w + 1 ELSE 0
    IN  [k \in 1..(nx * nx) |->
            LET cells == SortInts({cell_index(C, shape[j][1] + ((k - 1) \div nx),
                                              shape[j][2] + ((k - 1) % nx)) :
                                      j \in 1..Len(shape)})
            IN  [bitmask |-> {N_CELLS(C) + i} \cup Range(cells),
                 piece |-> name,
                 cells |-> cells]]
\* the rows of one orientation, dx outer loop, dy inner loop; i is the
\* piece's position in PIECE_ORDER
ShapeRows(C, i, name, shape) ==
    LET w == 1 + Max({shape[j][1] : j \in 1..Len(shape)})
        h == 1 + Max({shape[j][2] : j \in 1..Len(shape)})
        nx == IF C.W - w + 1 > 0 THEN C.W - w + 1 ELSE 0
        ny == IF C.H - h + 1 > 0 THEN C.H - h + 1 ELSE 0
        piece_bit == N_CELLS(C) + i
    IN  [k \in 1..(nx * ny) |->
            LET dx == (k - 1) \div ny
                dy == (k - 1) % ny
                cells == SortInts({cell_index(C, shape[j][1] + dx, shape[j][2] + dy) :
                                      j \in 1..Len(shape)})
            IN  [bitmask |-> {piece_bit} \cup Range(cells),
                 piece |-> name,
                 cells |-> cells]]

\* the rows of the first orientation alone
placements_first_orientation(C, i) ==
    ShapeRows(C, i, C.RAW_PIECES[i + 1].name, ORIENTATIONS(C.RAW_PIECES[i + 1].cells)[1])
\* placements_for_piece(name) for the piece at position i of PIECE_ORDER
placements_for_piece(C, i) ==
    LET os == ORIENTATIONS(C.RAW_PIECES[i + 1].cells)
    IN  Flatten([o \in 1..Len(os) |-> ShapeRows(C, i, C.RAW_PIECES[i + 1].name, os[o])])

\* ALL_ROWS
BuildRows(C) ==
    ZeroBased(Flatten([i \in 1..N_PIECES(C) |-> placements_for_piece(C, i - 1)]))

\* COL_TO_ROWS, from ALL_ROWS
BuildColToRows(rows, ncols) ==
    [col \in 0..(ncols - 1) |->
        ZeroBased(SortInts({ridx \in DOMAIN rows : col \in rows[ridx].bitmask}))]

\* col_order left as list(range(N_COLS)): the sort left out
BuildColOrderByIndex(c2r) == [i \in 1..LenZ(c2r) |-> i - 1]

\* col_order after col_order.sort(key=len(COL_TO_ROWS[c])): the sort is
\* stable on range(N_COLS), so ties stay in ascending column index
BuildColOrder(c2r) ==
    LET ps == SortPairs({<<LenZ(c2r[col]), col>> : col \in DOMAIN c2r})
    IN  [i \in 1..Len(ps) |-> ps[i][2]]

(* The configurations of src/tiling_solver.py (section 7), given here since *)
(* GLOBALS also holds the tables mondrian_solver builds for their pieces.  *)
\* an entry (name, width, height, colour code) of TilingSolver.pieces
SolverPiece(name, w, h, color) == [name |-> name, w |-> w, h |-> h, color |-> color]

\* the boards and piece lists the engine is run on (each passes _validate_pieces)
SolverConfigs ==
    <<[board_size |-> 2,
       pieces |-> <<SolverPiece("K_1x2", 1, 2, "k"), SolverPiece("K_1x1", 1, 1, "x"),
                    SolverPiece("W_1x1", 1, 1, "w")>>],
      [board_size |-> 2,
       pieces |-> <<SolverPiece("K_1x3", 1, 3, "K"), SolverPiece("K_1x1", 1, 1, "x")>>],
      [board_size |-> 2,
       pieces |-> <<SolverPiece("B_2x2", 2, 2, "b")>>],
      [board_size |-> 2,
       pieces |-> <<SolverPiece("K_1x2", 1, 2, "k"), SolverPiece("W_1x2", 1, 2, "w")>>],
      [board_size |-> 3,
       pieces |-> <<SolverPiece("B_2x2", 2, 2, "b"), SolverPiece("K_1x3", 1, 3, "K"),
                    SolverPiece("K_1x2", 1, 2, "k")>>]>>

ConfigIds == DOMAIN SolverConfigs

\* the board and pieces of a TilingSolver configuration as a catalogue of
\* mondrian_solver: both modules enumerate every translation of a w x h
\* rectangle and of its h x w turn
CatalogueOf(cfg) ==
    [W |-> cfg.board_size, H |-> cfg.board_size,
     RAW_PIECES |-> [i \in 1..Len(cfg.pieces) |->
                        Piece(cfg.pieces[i].name, cfg.pieces[i].w, cfg.pieces[i].h)]]

\* the catalogue number under which GLOBALS holds configuration c
CatOfConfig(c) == Len(Catalogues) + c

\* the globals of the module for catalogue C, and the col_order every call
\* of solve_exact_cover(randomize=False) computes from them
Globals(C) ==
    LET rows == BuildRows(C)
        c2r == BuildColToRows(rows, N_COLS(C))
    IN  [N_PIECES |-> N_PIECES(C), N_CELLS |-> N_CELLS(C), N_COLS |-> N_COLS(C),
         PIECE_ORDER |-> PIECE_ORDER(C),
         ALL_ROWS |-> rows, COL_TO_ROWS |-> c2r, col_order |-> BuildColOrder(c2r)]

GLOBALS ==
    [c \in 1..(Len(Catalogues) + Len(SolverConfigs)) |->
        IF c \in CatIds THEN Globals(Catalogues[c])
        ELSE Globals(CatalogueOf(SolverConfigs[c - Len(Catalogues)]))]

(***************************************************************************)
(* 4. solve_exact_cover: the bit-set Algorithm-X generator.  G stands for  *)
(*    the module globals, GLOBALS[cat].                                    *)
(***************************************************************************)
SymDiff(a, b) == (a \ b) \cup (b \ a)

\* limits a caller passes; solutions_found is compared with limit only, so
\* the model keeps min(solutions_found, MaxLimit)
MaxLimit == 3

\* the overlap test left out
CompatibleAny(row_bits, mask) == TRUE

\* the overlap test: row_bits & mask == 0
Compatible(row_bits, mask) == row_bits \cap mask = {}

\* the number of rows of column col that do not overlap mask
available_rows(G, col, mask) ==
    Cardinality({j \in DOMAIN G.COL_TO_ROWS[col] :
                    Compatible(G.ALL_ROWS[G.COL_TO_ROWS[col][j]].bitmask, mask)})

RECURSIVE ChooseFrom(_, _, _, _, _)
\* the loop of choose_next_col from position i of col_order on
ChooseFrom(G, mask, i, best_col, best_len) ==
    IF i > Len(G.col_order) THEN best_col
    ELSE LET col == G.col_order[i]
             a == available_rows(G, col, mask)
         IN  IF col \in mask THEN ChooseFrom(G, mask, i + 1, best_col, best_len)
             ELSE IF a = 0 THEN col
             ELSE IF best_col = None \/ a < best_len
                  THEN IF a = 1 THEN col
                       ELSE ChooseFrom(G, mask, i + 1, col, a)
                  ELSE ChooseFrom(G, mask, i + 1, best_col, best_len)

choose_next_col(G, mask) == ChooseFrom(G, mask, 1, None, 0)

\* the globals together with the col_order of the call
WithOrder(G, order) == [G EXCEPT !.col_order = order]

\* positions >= next_pos of the column's list whose row passes the overlap test
FittingPositions(G, col, next_pos, mask) ==
    {p \in DOMAIN G.COL_TO_ROWS[col] :
        p >= next_pos /\ Compatible(G.ALL_ROWS[G.COL_TO_ROWS[col][p]].bitmask, mask)}

\* the pops without the XOR of the row's bits
BacktrackKeepingMask(G, u, ch, st) ==
    LET f == st[Len(st)]
    IN  [u |-> u,
         ch |-> SubSeq(ch, 1, Len(ch) - 1),
         st |-> SubSeq(st, 1, Len(st) - 1),
         col |-> f.col, next_pos |-> f.next_pos]

\* stack.pop(), the row's bits XORed out, chosen_rows.pop(): the source
\* rebinds col, ridx and next_pos from the popped frame
Backtrack(G, u, ch, st) ==
    LET f == st[Len(st)]
    IN  [u |-> SymDiff(u, G.ALL_ROWS[f.ridx].bitmask),
         ch |-> SubSeq(ch, 1, Len(ch) - 1),
         st |-> SubSeq(st, 1, Len(st) - 1),
         col |-> f.col, next_pos |-> f.next_pos]

\* the row chosen at list position p of column col
Push(G, col, p, u, ch, st) ==
    LET ridx == G.COL_TO_ROWS[col][p]
    IN  [u |-> u \cup G.ALL_ROWS[ridx].bitmask,
         ch |-> Append(ch, ridx),
         st |-> Append(st, [col |-> col, ridx |-> ridx, next_pos |-> p + 1]),
         done |-> FALSE]

\* "Find next valid row for current column" and the backtrack after it
\* (lines 255-278): the state at the next `while True`, or done
ScanRows(G, col, next_pos, u, ch, st) ==
    LET fit == FittingPositions(G, col, next_pos, u)
        b == Backtrack(G, u, ch, st)
    IN  IF fit # {} THEN Push(G, col, Min(fit), u, ch, st)
        ELSE IF st = << >> THEN [u |-> u, ch |-> ch, st |-> st, done |-> TRUE]
        ELSE [u |-> b.u, ch |-> b.ch, st |-> b.st, done |-> FALSE]

\* the backtrack after a yield (lines 247-251) followed by the row scan
AfterYield(G, u, ch, st) ==
    LET b == Backtrack(G, u, ch, st)
    IN  ScanRows(G, b.col, b.next_pos, b.u, b.ch, b.st)

\* the test that ends the generator after a yield
LimitReached(lim, found) == lim # None /\ found >= lim

\* the call solve_exact_cover(limit, layout_callback): locals initialised
StartEngine ==
    /\ pc = "loop"
    /\ col_order = GLOBALS[cat].col_order
    /\ unavailable_cols = {}
    /\ chosen_rows = << >>
    /\ stack = << >>
    /\ solutions_found = 0
    /\ solution = << >>
    /\ yielded = {}
    /\ rejected = FALSE

\* the locals of the generator at the next `while True`, or its end
SetEngine(r) ==
    /\ unavailable_cols' = r.u
    /\ chosen_rows' = r.ch
    /\ stack' = r.st
    /\ pc' = IF r.done THEN "done" ELSE "loop"

\* an iteration of `while True` in which choose_next_col returns a column
Advance ==
    /\ pc = "loop"
    /\ \E col \in {choose_next_col(WithOrder(GLOBALS[cat], col_order), unavailable_cols)} :
          /\ col # None
          /\ SetEngine(ScanRows(GLOBALS[cat], col, 0, unavailable_cols, chosen_rows, stack))
    /\ UNCHANGED <<cat, limit, use_callback, col_order, solutions_found, solution, yielded,
                   rejected>>

\* choose_next_col returns None: the solution is copied, shown to the
\* callback when there is one, and yielded unless the callback returns False
Found ==
    /\ pc = "loop"
    /\ choose_next_col(WithOrder(GLOBALS[cat], col_order), unavailable_cols) = None
    /\ solution' = chosen_rows
    /\ \E ok \in (IF use_callback THEN BOOLEAN ELSE {TRUE}) :
          /\ rejected' = ~ok
          /\ pc' = IF ok THEN "yielded" ELSE "done"
          /\ yielded' = IF ok THEN yielded \cup {chosen_rows} ELSE yielded
    /\ UNCHANGED <<cat, limit, use_callback, col_order, unavailable_cols, chosen_rows,
                   stack, solutions_found>>

\* the generator is resumed after a yield (lines 243-251, then 255-278)
Resume ==
    /\ pc = "yielded"
    /\ solutions_found' = IF solutions_found < MaxLimit THEN solutions_found + 1
                          ELSE solutions_found
    /\ IF LimitReached(limit, solutions_found + 1) \/ stack = << >>
       THEN /\ pc' = "done"
            /\ UNCHANGED <<unavailable_cols, chosen_rows, stack>>
       ELSE SetEngine(AfterYield(GLOBALS[cat], unavailable_cols, chosen_rows, stack))
    /\ UNCHANGED <<cat, limit, use_callback, col_order, solution, yielded, rejected>>

(***************************************************************************)
(* 5. build_index: black layout -> number of tilings.                      *)
(***************************************************************************)
\* the cells list of black_cells_from_solution after its loop
BlackCellList(G, sol_rows) ==
    Flatten([i \in 1..Len(sol_rows) |->
                IF G.ALL_ROWS[sol_rows[i]].piece \in BLACK_NAMES
                THEN G.ALL_ROWS[sol_rows[i]].cells ELSE << >>])

\* black_cells_from_solution raises RuntimeError
BlackCountInvalid(G, sol_rows) == Len(BlackCellList(G, sol_rows)) # BLACK_COUNT

\* the cells in the order of the solution's rows, without sorted
black_cells_unsorted(G, sol_rows) == BlackCellList(G, sol_rows)

\* the value black_cells_from_solution returns when it does not raise
black_cells_from_solution(G, sol_rows) == sorted(BlackCellList(G, sol_rows))

\* counter[key] of a defaultdict(int), without inserting
Count(ctr, key) == IF key \in DOMAIN ctr THEN ctr[key] ELSE 0

\* counter[key] = 1 in place of += 1
IncrementedOnce(ctr, key) ==
    [k \in DOMAIN ctr \cup {key} |-> IF k = key THEN 1 ELSE ctr[k]]

\* counter[key] += 1
Incremented(ctr, key) ==
    [k \in DOMAIN ctr \cup {key} |-> IF k = key THEN Count(ctr, key) + 1 ELSE ctr[k]]

\* the test with >= in place of >
TooManyAtCap(count, cap) == count >= cap

\* the test that marks a layout for skipping, on the count just stored
TooMany(count, cap) == count > cap

\* caps and numbers of solutions the model runs build_index with
MaxCap == 3
MaxSolutions == 4

\* solve_iteratively has recorded nothing
NoReport ==
    /\ black_positions_set = {}
    /\ black_json_data = << >>

\* no DLX object of src/test.py and no generator in use
NoGen ==
    /\ matrix = << >>
    /\ num_cols = 0
    /\ max_solutions = 2
    /\ solutions_count = 0
    /\ timed_out = FALSE
    /\ num_solutions = None
    /\ generator = 1
    /\ attempt = 0
    /\ black_cells = {}
    /\ result = << >>
    /\ futures = << >>
    /\ consumed = {}
    /\ elapsed = FALSE
    /\ outcome = "idle"

\* generate_puzzle is not running
NoPool ==
    /\ futures = << >>
    /\ consumed = {}
    /\ elapsed = FALSE
    /\ outcome = "idle"

\* the module is imported: no table is being built
NoTable ==
    /\ BOARD = << >>
    /\ orientations = << >>
    /\ pname = 0
    /\ ALL_ROWS = << >>

\* calculate_difficulty_score not called
NoScore ==
    /\ black_pieces = << >>
    /\ score_data = << >>

\* no dancing-links search in progress
NoSearch ==
    /\ NoReport
    /\ config = 1
    /\ nodes = << >>
    /\ dlx_solution = << >>
    /\ search_stopped = FALSE
    /\ frames = << >>
    /\ dpc = "idle"
    /\ calls = 0
    /\ visited = << >>
    /\ refused = FALSE

\* no build in progress (a direct caller of solve_exact_cover)
NoBuild ==
    /\ phase = "engine"
    /\ M = 0
    /\ counter = << >>
    /\ skipped_layouts = {}
    /\ n = 0
    /\ skipped_count = 0
    /\ interrupted = FALSE
    /\ file = None
    /\ layouts = None
    /\ seen = << >>
    /\ invalid_seen = 0

\* build_index(limit, max_solutions_per_layout) entered: locals initialised
StartBuild ==
    /\ phase = "building"
    /\ M \in 0..MaxCap
    /\ counter = << >>
    /\ skipped_layouts = {}
    /\ n = 0
    /\ skipped_count = 0
    /\ interrupted = FALSE
    /\ file = None
    /\ layouts = None
    /\ seen = << >>
    /\ invalid_seen = 0

\* the dead-set test left out: no key is ever skipped
InSkippedNever(key, skipped) == FALSE

\* if key in skipped_layouts (line 351)
InSkipped(key, skipped) == key \in skipped

\* the body of the for loop for the solution just yielded (lines 346-364)
Body ==
    /\ phase = "body"
    /\ n' = n + 1
    /\ phase' = "building"
    /\ IF BlackCountInvalid(GLOBALS[cat], solution)
       THEN \* RuntimeError caught: warning printed, continue
            /\ invalid_seen' = invalid_seen + 1
            /\ UNCHANGED <<counter, skipped_layouts, skipped_count, seen>>
       ELSE LET key == black_cells_from_solution(GLOBALS[cat], solution)
            IN  /\ seen' = [k \in DOMAIN seen \cup {key} |->
                            IF k = key THEN Count(seen, key) + 1 ELSE seen[k]]
                /\ invalid_seen' = invalid_seen
                /\ IF InSkipped(key, skipped_layouts)
                   THEN /\ skipped_count' = skipped_count + 1
                        /\ UNCHANGED <<counter, skipped_layouts>>
                   ELSE /\ counter' = Incremented(counter, key)
                        /\ skipped_layouts' =
                              IF TooMany(Count(counter, key) + 1, M)
                              THEN skipped_layouts \cup {key} ELSE skipped_layouts
                        /\ skipped_count' = skipped_count
    /\ UNCHANGED <<M, interrupted, file, layouts>>
    /\ UNCHANGED engineVars
    /\ UNCHANGED <<dlxVars, reportVars, scoreVars, tableVars, genVars>>

\* next(generator): an iteration of its loop that does not reach a solution
GenStep ==
    /\ phase = "building"
    /\ Advance
    /\ UNCHANGED buildVars
    /\ UNCHANGED <<dlxVars, reportVars, scoreVars, tableVars, genVars>>

\* next(generator) after a yield: the generator resumes behind the yield
GenResume ==
    /\ phase = "building"
    /\ Resume
    /\ UNCHANGED buildVars
    /\ UNCHANGED <<dlxVars, reportVars, scoreVars, tableVars, genVars>>

\* the generator yields: the for loop binds sol
GenYield ==
    /\ phase = "building"
    /\ n < MaxSolutions
    /\ Found
    /\ phase' = "body"
    /\ UNCHANGED <<M, counter, skipped_layouts, n, skipped_count, interrupted,
                   file, layouts, seen, invalid_seen>>
    /\ UNCHANGED <<dlxVars, reportVars, scoreVars, tableVars, genVars>>

\* the generator is exhausted: the for loop ends and build_index returns counter
GenEnd ==
    /\ phase = "building"
    /\ pc = "done"
    /\ phase' = "returned"
    /\ UNCHANGED <<M, counter, skipped_layouts, n, skipped_count, interrupted,
                   file, layouts, seen, invalid_seen>>
    /\ UNCHANGED engineVars
    /\ UNCHANGED <<dlxVars, reportVars, scoreVars, tableVars, genVars>>

\* KeyboardInterrupt inside the try block: build_index returns counter as it is
Interrupt ==
    /\ phase \in {"building", "body"}
    /\ pc # "done"
    /\ phase' = "returned"
    /\ interrupted' = TRUE
    /\ UNCHANGED <<M, counter, skipped_layouts, n, skipped_count,
                   file, layouts, seen, invalid_seen>>
    /\ UNCHANGED engineVars
    /\ UNCHANGED <<dlxVars, reportVars, scoreVars, tableVars, genVars>>

(***************************************************************************)
(* 6. save_index / load_index.  A str is a sequence of one-character       *)
(*    strings.  The file holds zlib.compress(json.dumps(d)) of a dict d    *)
(*    from str to int and is read back with json.loads(zlib.decompress()); *)
(*    both library pairs return d, so the model keeps d itself as the      *)
(*    file's contents and models the key conversions of the source.        *)
(***************************************************************************)
Digits == <<"0", "1", "2", "3", "4", "5", "6", "7", "8", "9">>

RECURSIVE str(_)
\* str(i) for an int i >= 0
str(i) == IF i < 10 THEN <<Digits[i + 1]>> ELSE str(i \div 10) \o <<Digits[(i % 10) + 1]>>

RECURSIVE join(_, _)
\* sep.join(parts)
join(sep, parts) ==
    IF parts = << >> THEN << >>
    ELSE IF Len(parts) = 1 THEN parts[1]
    ELSE parts[1] \o <<sep>> \o join(sep, Tail(parts))

\* ";".join(map(str, k))
KeyString(k) == join(";", [i \in 1..Len(k) |-> str(k[i])])

RECURSIVE split(_, _)
\* s.split(sep): always at least one part
split(s, sep) ==
    IF \A i \in 1..Len(s) : s[i] # sep THEN <<s>>
    ELSE LET i == Min({j \in 1..Len(s) : s[j] = sep})
         IN  <<SubSeq(s, 1, i - 1)>> \o split(SubSeq(s, i + 1, Len(s)), sep)

DigitValue(ch) == (CHOOSE d \in 1..10 : Digits[d] = ch) - 1

\* int(s) raises ValueError (s as written by str: decimal digits only)
IntInvalid(s) == s = << >> \/ \E i \in 1..Len(s) : s[i] \notin Range(Digits)

\* int(s) that reads the last digit only
intLastDigit(s) == DigitValue(s[Len(s)])

RECURSIVE int(_)
\* int(s) for a string of decimal digits
int(s) == IF Len(s) = 1 THEN DigitValue(s[1])
          ELSE 10 * int(SubSeq(s, 1, Len(s) - 1)) + DigitValue(s[Len(s)])

\* the entries save_index keeps
Unique(v) == v = 1

\* only_unique of save_index
only_unique(ctr) ==
    LET keep == {k \in DOMAIN ctr : Unique(ctr[k])}
    IN  [ks \in {KeyString(k) : k \in keep} |->
            ctr[CHOOSE k \in keep : KeyString(k) = ks]]

\* tuple(map(int, k.split(";")))
ParseKey(ks) == LET parts == split(ks, ";") IN [i \in 1..Len(parts) |-> int(parts[i])]
ParseInvalid(ks) == LET parts == split(ks, ";") IN \E i \in 1..Len(parts) : IntInvalid(parts[i])

\* the list load_index returns, as the set of its elements
load_index(obj) == {ParseKey(ks) : ks \in DOMAIN obj}

\* main, "build": save_index(counter, out_path) after build_index returned
Save ==
    /\ phase = "returned"
    /\ file' = only_unique(counter)
    /\ phase' = "saved"
    /\ UNCHANGED <<M, counter, skipped_layouts, n, skipped_count, interrupted,
                   layouts, seen, invalid_seen>>
    /\ UNCHANGED engineVars
    /\ UNCHANGED <<dlxVars, reportVars, scoreVars, tableVars, genVars>>

\* main, "sample": load_index(path) on the file written
Load ==
    /\ phase = "saved"
    /\ IF \E ks \in DOMAIN file : ParseInvalid(ks)
       THEN /\ phase' = "ValueError"
            /\ UNCHANGED layouts
       ELSE /\ phase' = "loaded"
            /\ layouts' = load_index(file)
    /\ UNCHANGED <<M, counter, skipped_layouts, n, skipped_count, interrupted,
                   file, seen, invalid_seen>>
    /\ UNCHANGED engineVars
    /\ UNCHANGED <<dlxVars, reportVars, scoreVars, tableVars, genVars>>

(***************************************************************************)
(* The build command: build_index(limit, M) over solve_exact_cover(limit), *)
(* then save_index, then load_index of the file.                           *)
(***************************************************************************)
InitBuild ==
    /\ NoTable
    /\ NoGen
    /\ NoScore
    /\ cat \in CatIds
    /\ limit \in {None} \cup (0..MaxLimit)
    /\ use_callback = FALSE
    /\ StartEngine
    /\ StartBuild
    /\ NoSearch

NextBuild == GenStep \/ GenResume \/ GenYield \/ Body \/ GenEnd \/ Interrupt \/ Save \/ Load

SpecBuild == InitBuild /\ [][NextBuild]_vars

(***************************************************************************)
(* build_index against solve_exact_cover taken at its interface, "a        *)
(* generator of solutions": any finite stream of tilings of the board, in  *)
(* any order and with repetitions, the stream the generator really         *)
(* produces included.                                                      *)
(***************************************************************************)
\* t, a set of row indices, is an exact cover of the N_COLS columns
ExactCover(G, t) ==
    /\ \A r1, r2 \in t : r1 # r2 => G.ALL_ROWS[r1].bitmask \cap G.ALL_ROWS[r2].bitmask = {}
    /\ UNION {G.ALL_ROWS[r].bitmask : r \in t} = 0..(G.N_COLS - 1)

RECURSIVE CoversFrom(_, _, _)
\* the sets of rows, one for each piece from position i on, that are pairwise
\* disjoint, avoid `covered` and cover every column together with it
CoversFrom(G, covered, i) ==
    IF i = G.N_PIECES
    THEN IF covered = 0..(G.N_COLS - 1) THEN {{}} ELSE {}
    ELSE UNION {{t \cup {r} : t \in CoversFrom(G, covered \cup G.ALL_ROWS[r].bitmask, i + 1)} :
                   r \in {q \in DOMAIN G.ALL_ROWS :
                             /\ G.ALL_ROWS[q].piece = G.PIECE_ORDER[i]
                             /\ G.ALL_ROWS[q].bitmask \cap covered = {}}}

\* every tiling of each board by its catalogue (independent of the engine)
TILINGS == [c \in CatIds |-> CoversFrom(GLOBALS[c], {}, 0)]

\* the catalogues the streams are drawn from
StreamCats == {1, 2, 5}

\* the generator yields some tiling
AnySolution ==
    /\ phase = "building"
    /\ n < MaxSolutions
    /\ \E t \in TILINGS[cat] : solution' = SortInts(t)
    /\ phase' = "body"
    /\ UNCHANGED <<M, counter, skipped_layouts, n, skipped_count, interrupted,
                   file, layouts, seen, invalid_seen>>
    /\ UNCHANGED <<cat, limit, use_callback, pc, col_order, unavailable_cols, chosen_rows,
                   stack, solutions_found, yielded, rejected>>
    /\ UNCHANGED <<dlxVars, reportVars, scoreVars, tableVars, genVars>>

\* the generator ends (limit reached or enumeration over)
AnyEnd ==
    /\ phase = "building"
    /\ phase' = "returned"
    /\ UNCHANGED <<M, counter, skipped_layouts, n, skipped_count, interrupted,
                   file, layouts, seen, invalid_seen>>
    /\ UNCHANGED engineVars
    /\ UNCHANGED <<dlxVars, reportVars, scoreVars, tableVars, genVars>>

InitAgg ==
    /\ NoTable
    /\ NoGen
    /\ NoScore
    /\ cat \in StreamCats
    /\ limit = None
    /\ use_callback = FALSE
    /\ StartEngine
    /\ StartBuild
    /\ NoSearch

NextAgg == AnySolution \/ Body \/ AnyEnd \/ Save \/ Load

SpecAgg == InitAgg /\ [][NextAgg]_vars

(***************************************************************************)
(* A caller that iterates solve_exact_cover(limit, layout_callback) to     *)
(* exhaustion, as test_solver does with list(...).                         *)
(***************************************************************************)
Limits == {None} \cup (0..MaxLimit)

InitEngine ==
    /\ NoTable
    /\ NoGen
    /\ NoScore
    /\ cat \in CatIds
    /\ limit \in Limits
    /\ use_callback \in BOOLEAN
    /\ StartEngine
    /\ NoBuild
    /\ NoSearch

\* the caller asks for the next solution: the generator runs one iteration
Iterate == Advance /\ UNCHANGED <<buildVars, dlxVars, reportVars, scoreVars, tableVars, genVars>>

\* the generator reaches a solution; the caller's loop body does nothing
Deliver == Found /\ UNCHANGED <<buildVars, dlxVars, reportVars, scoreVars, tableVars, genVars>>

\* the caller asks again after a yield
Continue == Resume /\ UNCHANGED <<buildVars, dlxVars, reportVars, scoreVars, tableVars, genVars>>

NextEngine == Iterate \/ Deliver \/ Continue

SpecEngine == InitEngine /\ [][NextEngine]_vars

\* outcomes of random.shuffle(col_order) on list(range(n)): the rotations of
\* the list and of its reverse
Shuffles(len) ==
    {[i \in 1..len |-> (i - 1 + k) % len] : k \in 0..(len - 1)}
    \cup {[i \in 1..len |-> (len - i + k) % len] : k \in 0..(len - 1)}

\* solve_exact_cover(limit, layout_callback, randomize=True)
InitShuffled ==
    /\ NoTable
    /\ NoGen
    /\ NoScore
    /\ NoBuild
    /\ NoSearch
    /\ cat \in CatIds
    /\ limit \in Limits
    /\ use_callback \in BOOLEAN
    /\ pc = "loop"
    /\ col_order \in Shuffles(GLOBALS[cat].N_COLS)
    /\ unavailable_cols = {}
    /\ chosen_rows = << >>
    /\ stack = << >>
    /\ solutions_found = 0
    /\ solution = << >>
    /\ yielded = {}
    /\ rejected = FALSE

SpecShuffled == InitShuffled /\ [][NextEngine]_vars

\* the caller's loop keeps asking for the next solution and the generator
\* runs on one thread: a step that is possible is eventually taken
FairSpecEngine == SpecEngine /\ WF_vars(NextEngine)

(***************************************************************************)
(* 7. The dancing-links engine of src/tiling_solver.py.  A node is an      *)
(*    integer: 0 is DancingLinks.header, the column header of column index *)
(*    i is node i + 1, and the data nodes follow in the order add_row      *)
(*    creates them.  d is the record of the node fields: d.left[x] is      *)
(*    x.left, and so on.  TilingSolver fixes board_size 8 and 11 pieces;   *)
(*    the model runs the same code over the small boards of SolverConfigs. *)
(***************************************************************************)
\* _validate_pieces: the total area of the pieces is the area of the board
PiecesFillBoard(cfg) ==
    LET area[i \in 0..Len(cfg.pieces)] ==
            IF i = 0 THEN 0 ELSE area[i - 1] + cfg.pieces[i].w * cfg.pieces[i].h
    IN  area[Len(cfg.pieces)] = cfg.board_size * cfg.board_size

\* the number of cell columns: the source writes 64, the cell count of its
\* board, the only board_size _validate_pieces accepts for its pieces
CellColumns(cfg) == cfg.board_size * cfg.board_size

\* the cells list of one position: for dr in range(h): for dc in range(w)
PositionCells(cfg, row, col, w, h) ==
    Flatten([dr \in 1..h |->
               [dc \in 1..w |-> row * cfg.board_size + col
                                + (dr - 1) * cfg.board_size + (dc - 1)]])

\* the positions of one orientation: for row in range(..): for col in range(..)
OrientationPositions(cfg, w, h) ==
    Flatten([row \in 1..Max({cfg.board_size - h + 1, 0}) |->
               [col \in 1..Max({cfg.board_size - w + 1, 0}) |->
                   PositionCells(cfg, row - 1, col - 1, w, h)]])

\* get_piece_positions: the cell lists of a piece, (w, h) first, then (h, w)
\* unless the piece is a square
get_piece_positions(cfg, width, height) ==
    OrientationPositions(cfg, width, height)
    \o (IF width # height THEN OrientationPositions(cfg, height, width) ELSE << >>)

\* build_dlx_matrix: self.placements, the list of [piece_id, cells]
Placements(cfg) ==
    Flatten([i \in 1..Len(cfg.pieces) |->
               LET pos == get_piece_positions(cfg, cfg.pieces[i].w, cfg.pieces[i].h)
               IN  [k \in 1..Len(pos) |-> [piece_id |-> i - 1, cells |-> pos[k]]]])

\* the matrix row of a placement: sorted(cells + [64 + piece_id])
MatrixRow(cfg, pl) == sorted(pl.cells \o <<CellColumns(cfg) + pl.piece_id>>)

\* DancingLinks.__init__: the header alone, linked to itself
header == 0

EmptyLinks ==
    [left |-> (header :> header), right |-> (header :> header),
     up |-> (header :> header), down |-> (header :> header),
     column |-> (header :> None), row_id |-> (header :> None),
     size |-> (header :> 0), columns |-> << >>, nrows |-> 0]

\* DLXNode(): a new node x linked to itself
NewNode(d, x) ==
    [d EXCEPT !.left = @ @@ (x :> x), !.right = @ @@ (x :> x),
              !.up = @ @@ (x :> x), !.down = @ @@ (x :> x),
              !.column = @ @@ (x :> None), !.row_id = @ @@ (x :> None)]

NextNode(d) == Cardinality(DOMAIN d.left)

\* add_column: the new header goes in at the left of the header
add_column(d) ==
    LET col == NextNode(d)
        d0 == [NewNode(d, col) EXCEPT !.size = @ @@ (col :> 0)]
        d1 == [d0 EXCEPT !.left[col] = d0.left[header]]
        d2 == [d1 EXCEPT !.right[col] = header]
        d3 == [d2 EXCEPT !.right[d2.left[header]] = col]
        d4 == [d3 EXCEPT !.left[header] = col]
    IN  [d4 EXCEPT !.columns = Append(@, col)]

RECURSIVE AddRowNodes(_, _, _, _, _)
\* the loop of add_row from position i of the sorted row on
AddRowNodes(d, row, i, prev, first) ==
    IF i > Len(row) THEN [d EXCEPT !.nrows = @ + 1]
    ELSE LET node == NextNode(d)
             c == d.columns[row[i] + 1]
             n0 == [NewNode(d, node) EXCEPT !.row_id[node] = d.nrows, !.column[node] = c]
             \* vertical links
             n1 == [n0 EXCEPT !.down[node] = c]
             n2 == [n1 EXCEPT !.up[node] = n1.up[c]]
             n3 == [n2 EXCEPT !.down[n2.up[c]] = node]
             n4 == [n3 EXCEPT !.up[c] = node]
             n5 == [n4 EXCEPT !.size[c] = @ + 1]
             \* horizontal links
             n6 == IF prev # None
                   THEN LET h1 == [n5 EXCEPT !.left[node] = prev]
                            h2 == [h1 EXCEPT !.right[node] = first]
                            h3 == [h2 EXCEPT !.right[prev] = node]
                        IN  [h3 EXCEPT !.left[first] = node]
                   ELSE n5
         IN  AddRowNodes(n6, row, i + 1, node, IF prev # None THEN first ELSE node)

add_row(d, row) == AddRowNodes(d, sorted(row), 1, None, None)

\* the placement list of each configuration
PLACEMENTS == [c \in ConfigIds |-> Placements(SolverConfigs[c])]

\* the columns of the matrix: one for each cell and each piece
MatrixColumns(cfg) == CellColumns(cfg) + Len(cfg.pieces)

RECURSIVE CoverNodes(_, _, _)
\* the inner loop of cover: the nodes of a row from j on leave their columns
CoverNodes(d, row, j) ==
    IF j = row THEN d
    ELSE LET d1 == [d EXCEPT !.up[d.down[j]] = d.up[j]]
             d2 == [d1 EXCEPT !.down[d1.up[j]] = d1.down[j]]
             d3 == [d2 EXCEPT !.size[d2.column[j]] = @ - 1]
         IN  CoverNodes(d3, row, d3.right[j])

RECURSIVE CoverRows(_, _, _)
\* the outer loop of cover: the rows of the column from row on, downwards
CoverRows(d, col, row) ==
    IF row = col THEN d
    ELSE LET d1 == CoverNodes(d, row, d.right[row])
         IN  CoverRows(d1, col, d1.down[row])

\* cover(col)
cover(d, col) ==
    LET d1 == [d EXCEPT !.left[d.right[col]] = d.left[col]]
        d2 == [d1 EXCEPT !.right[d1.left[col]] = d1.right[col]]
    IN  CoverRows(d2, col, d2.down[col])

RECURSIVE UncoverNodes(_, _, _)
\* the inner loop of uncover: the nodes of a row from j on, leftwards
UncoverNodes(d, row, j) ==
    IF j = row THEN d
    ELSE LET d1 == [d EXCEPT !.size[d.column[j]] = @ + 1]
             d2 == [d1 EXCEPT !.up[d1.down[j]] = j]
             d3 == [d2 EXCEPT !.down[d2.up[j]] = j]
         IN  UncoverNodes(d3, row, d3.left[j])

RECURSIVE UncoverRows(_, _, _)
\* the outer loop of uncover: the rows of the column from row on, upwards
UncoverRows(d, col, row) ==
    IF row = col THEN d
    ELSE LET d1 == UncoverNodes(d, row, d.left[row])
         IN  UncoverRows(d1, col, d1.up[row])

\* the column header linked back in, its rows left out of their columns
uncover_header_only(d, col) ==
    LET d2 == [d EXCEPT !.left[d.right[col]] = col]
    IN  [d2 EXCEPT !.right[d2.left[col]] = col]

\* uncover(col)
uncover(d, col) ==
    LET d1 == UncoverRows(d, col, d.up[col])
        d2 == [d1 EXCEPT !.left[d1.right[col]] = col]
    IN  [d2 EXCEPT !.right[d2.left[col]] = col]

RECURSIVE ChooseColumnFrom(_, _, _, _)
\* the loop of choose_column from header j on; s is meaningful once col is
\* set (before that it is float('inf'))
ChooseColumnFrom(d, j, col, s) ==
    IF j = header THEN col
    ELSE IF col = None \/ d.size[j] < s
         THEN IF d.size[j] = 0 THEN j
              ELSE ChooseColumnFrom(d, d.right[j], j, d.size[j])
         ELSE ChooseColumnFrom(d, d.right[j], col, s)

choose_column(d) == ChooseColumnFrom(d, d.right[header], None, 0)

RECURSIVE CoverOthers(_, _, _)
\* j = row.right; while j != row: cover(j.column); j = j.right
CoverOthers(d, row, j) ==
    IF j = row THEN d ELSE LET d1 == cover(d, d.column[j]) IN CoverOthers(d1, row, d1.right[j])

RECURSIVE UncoverOthers(_, _, _)
\* j = row.left; while j != row: uncover(j.column); j = j.left
UncoverOthers(d, row, j) ==
    IF j = row THEN d ELSE LET d1 == uncover(d, d.column[j]) IN UncoverOthers(d1, row, d1.left[j])

\* the visitor's answer left out: the flag keeps its value
StoppedUnchanged(stopped, ok) == stopped

\* if not callback(self.solution[:]): self._search_stopped = True
StoppedAfter(stopped, ok) == IF ~ok THEN TRUE ELSE stopped

\* solve_iteratively: TilingSolver(config) constructed, build_dlx_matrix
\* entered with a new DancingLinks object
StartSolver ==
    /\ NoReport
    /\ config \in ConfigIds
    /\ nodes = EmptyLinks
    /\ dlx_solution = << >>
    /\ search_stopped = FALSE
    /\ frames = << >>
    /\ dpc = "build"
    /\ calls = 0
    /\ visited = << >>
    /\ refused = FALSE

\* the position of build_dlx_matrix once the object is d
BuildPc(d, c) ==
    IF Len(d.columns) = MatrixColumns(SolverConfigs[c]) /\ d.nrows = Len(PLACEMENTS[c])
    THEN "built" ELSE "build"

\* build_dlx_matrix: one dlx.add_column(..) of its two column loops
AddColumn ==
    /\ dpc = "build"
    /\ Len(nodes.columns) < MatrixColumns(SolverConfigs[config])
    /\ nodes' = add_column(nodes)
    /\ dpc' = BuildPc(nodes', config)
    /\ UNCHANGED <<config, calls, dlx_solution, search_stopped, frames, visited, refused>>
    /\ UNCHANGED <<engineVars, buildVars, reportVars, scoreVars, tableVars, genVars>>

\* build_dlx_matrix: dlx.add_row(row) for the next placement
AddRow ==
    /\ dpc = "build"
    /\ Len(nodes.columns) = MatrixColumns(SolverConfigs[config])
    /\ nodes.nrows < Len(PLACEMENTS[config])
    /\ nodes' = add_row(nodes, MatrixRow(SolverConfigs[config],
                                         PLACEMENTS[config][nodes.nrows + 1]))
    /\ dpc' = BuildPc(nodes', config)
    /\ UNCHANGED <<config, calls, dlx_solution, search_stopped, frames, visited, refused>>
    /\ UNCHANGED <<engineVars, buildVars, reportVars, scoreVars, tableVars, genVars>>

\* top-level calls of search made on one DancingLinks object
MaxCalls == 2

\* dlx.search(callback) called on the matrix built, or called again on the
\* same object after it returned: nothing resets _search_stopped
CallSearch ==
    /\ dpc \in {"built", "done"}
    /\ calls < MaxCalls
    /\ calls' = calls + 1
    /\ dpc' = "call"
    /\ UNCHANGED <<config, nodes, dlx_solution, search_stopped, frames, visited, refused>>
    /\ UNCHANGED <<engineVars, buildVars, reportVars, scoreVars, tableVars, genVars>>

\* return from a call of search: to the caller's frame behind its recursive
\* call, or out of the top-level call
ReturnTo(fr) == IF fr = << >> THEN "done" ELSE "return"

\* search entered with the flag set: it returns at once (lines 196-197)
SearchStopped ==
    /\ dpc = "call"
    /\ search_stopped
    /\ dpc' = ReturnTo(frames)
    /\ UNCHANGED <<config, calls, nodes, dlx_solution, search_stopped, frames, visited, refused>>
    /\ UNCHANGED <<engineVars, buildVars, reportVars, scoreVars, tableVars, genVars>>

\* the colour codes extract_black_pieces_info looks for
BlackColors == {"K", "k", "x"}

\* the entry extract_black_pieces_info writes for a black placement
PieceInfo(cfg, pl) ==
    LET rows == {c \div cfg.board_size : c \in Range(pl.cells)}
        cols == {c % cfg.board_size : c \in Range(pl.cells)}
    IN  [name |-> cfg.pieces[pl.piece_id + 1].name,
         color |-> cfg.pieces[pl.piece_id + 1].color,
         position |-> [top_left |-> [row |-> Min(rows), col |-> Min(cols)],
                       bottom_right |-> [row |-> Max(rows), col |-> Max(cols)]],
         size |-> [width |-> Max(cols) - Min(cols) + 1,
                   height |-> Max(rows) - Min(rows) + 1],
         cells |-> [i \in 1..Len(pl.cells) |->
                       [row |-> pl.cells[i] \div cfg.board_size,
                        col |-> pl.cells[i] % cfg.board_size]]]

\* black_pieces[color] = info on a dict held as the list of its values in
\* insertion order: an entry of the same colour is replaced in place
DictSet(black, info) ==
    IF \E i \in 1..Len(black) : black[i].color = info.color
    THEN [i \in 1..Len(black) |-> IF black[i].color = info.color THEN info ELSE black[i]]
    ELSE Append(black, info)

RECURSIVE ExtractFrom(_, _, _, _)
\* the loop of extract_black_pieces_info from position i of the solution on
ExtractFrom(c, sol, i, black) ==
    IF i > Len(sol) THEN black
    ELSE ExtractFrom(c, sol, i + 1,
            IF SolverConfigs[c].pieces[PLACEMENTS[c][sol[i] + 1].piece_id + 1].color
                  \in BlackColors
            THEN DictSet(black, PieceInfo(SolverConfigs[c], PLACEMENTS[c][sol[i] + 1]))
            ELSE black)

extract_black_pieces_info(c, sol) == ExtractFrom(c, sol, 1, << >>)

\* the cells of the pieces in dict order, each piece's cells in its order
position_key_by_piece(black_pieces_info) ==
    Flatten([i \in 1..Len(black_pieces_info) |->
               [j \in 1..Len(black_pieces_info[i].cells) |->
                   <<black_pieces_info[i].cells[j].row, black_pieces_info[i].cells[j].col>>]])
\* position_key = tuple(sorted(all_black_cells)), all_black_cells the set of
\* the (row, col) of every cell of every entry
position_key(black_pieces_info) ==
    SortPairs({<<cell.row, cell.col>> :
                 cell \in UNION {Range(black_pieces_info[i].cells) :
                                    i \in 1..Len(black_pieces_info)}})

\* process_solution, lines 560-584: the combination is recorded unless its
\* position key is known (found is self.stats.solutions_found, counted up
\* by search before the call; the timestamp is left out)
RecordCombination(black_pieces_info, found) ==
    IF position_key(black_pieces_info) \notin black_positions_set
    THEN /\ black_positions_set' =
               black_positions_set \cup {position_key(black_pieces_info)}
         /\ black_json_data' =
               Append(black_json_data,
                      [combination_id |-> Cardinality(black_positions_set) + 1,
                       solution_id |-> found,
                       black_pieces |-> black_pieces_info])
    ELSE UNCHANGED reportVars

\* no column is left: a solution, counted and shown to process_solution
\* (lines 201-207), which answers False once max_solutions is reached
SearchSolution ==
    /\ dpc = "call"
    /\ ~search_stopped
    /\ nodes.right[header] = header
    /\ visited' = Append(visited, dlx_solution)
    /\ \E ok \in BOOLEAN :
          /\ search_stopped' = StoppedAfter(search_stopped, ok)
          /\ refused' = (refused \/ ~ok)
    /\ RecordCombination(extract_black_pieces_info(config, dlx_solution), Len(visited) + 1)
    /\ dpc' = ReturnTo(frames)
    /\ UNCHANGED <<config, calls, nodes, dlx_solution, frames>>
    /\ UNCHANGED <<engineVars, buildVars, scoreVars, tableVars, genVars>>

\* the column chosen has no row: backtrack (lines 210-213)
SearchDeadEnd ==
    /\ dpc = "call"
    /\ ~search_stopped
    /\ nodes.right[header] # header
    /\ nodes.size[choose_column(nodes)] = 0
    /\ dpc' = ReturnTo(frames)
    /\ UNCHANGED <<config, calls, nodes, dlx_solution, search_stopped, frames, visited, refused>>
    /\ UNCHANGED <<engineVars, buildVars, reportVars, scoreVars, tableVars, genVars>>

\* the column chosen is covered and its first row taken (lines 216-219)
SearchCover ==
    /\ dpc = "call"
    /\ ~search_stopped
    /\ nodes.right[header] # header
    /\ LET col == choose_column(nodes)
       IN  /\ nodes.size[col] # 0
           /\ nodes' = cover(nodes, col)
           /\ frames' = Append(frames, [col |-> col, row |-> nodes'.down[col]])
    /\ dpc' = "loop"
    /\ UNCHANGED <<config, calls, dlx_solution, search_stopped, visited, refused>>
    /\ UNCHANGED <<engineVars, buildVars, reportVars, scoreVars, tableVars, genVars>>

\* the loop test of line 220
LoopContinues(row, col, stopped) == row # col /\ ~stopped

\* the loop body up to the recursive call (lines 221-230)
TryRow ==
    /\ dpc = "loop"
    /\ LET f == frames[Len(frames)]
       IN  /\ LoopContinues(f.row, f.col, search_stopped)
           /\ dlx_solution' = Append(dlx_solution, nodes.row_id[f.row])
           /\ nodes' = CoverOthers(nodes, f.row, nodes.right[f.row])
    /\ dpc' = "call"
    /\ UNCHANGED <<config, calls, search_stopped, frames, visited, refused>>
    /\ UNCHANGED <<engineVars, buildVars, reportVars, scoreVars, tableVars, genVars>>

\* the loop body behind the recursive call (lines 233-239)
AfterCall ==
    /\ dpc = "return"
    /\ LET f == frames[Len(frames)]
       IN  /\ dlx_solution' = SubSeq(dlx_solution, 1, Len(dlx_solution) - 1)
           /\ nodes' = UncoverOthers(nodes, f.row, nodes.left[f.row])
           /\ frames' = [frames EXCEPT ![Len(frames)].row = nodes'.down[f.row]]
    /\ dpc' = "loop"
    /\ UNCHANGED <<config, calls, search_stopped, visited, refused>>
    /\ UNCHANGED <<engineVars, buildVars, reportVars, scoreVars, tableVars, genVars>>

\* the loop is left: uncover(col) and return (lines 220, 241-242)
LoopExit ==
    /\ dpc = "loop"
    /\ LET f == frames[Len(frames)]
       IN  /\ ~LoopContinues(f.row, f.col, search_stopped)
           /\ nodes' = uncover(nodes, f.col)
    /\ frames' = SubSeq(frames, 1, Len(frames) - 1)
    /\ dpc' = ReturnTo(frames')
    /\ UNCHANGED <<config, calls, dlx_solution, search_stopped, visited, refused>>
    /\ UNCHANGED <<engineVars, buildVars, reportVars, scoreVars, tableVars, genVars>>

(***************************************************************************)
(* A caller with a visitor, on either engine: solve_exact_cover with a     *)
(* layout_callback, or DancingLinks.search with a callback.  The visitor   *)
(* is any function to bool: its answer is a free choice at each call.      *)
(***************************************************************************)
\* no generator in use
NoEngine ==
    /\ cat = 1
    /\ limit = None
    /\ use_callback = FALSE
    /\ pc = "idle"
    /\ col_order = << >>
    /\ unavailable_cols = {}
    /\ chosen_rows = << >>
    /\ stack = << >>
    /\ solutions_found = 0
    /\ solution = << >>
    /\ yielded = {}
    /\ rejected = FALSE

InitVisitor ==
    /\ NoTable
    /\ NoGen
    /\ NoScore
    /\ NoBuild
    /\ \/ /\ cat \in CatIds
          /\ limit \in Limits
          /\ use_callback = TRUE
          /\ StartEngine
          /\ NoSearch
       \/ /\ NoEngine
          /\ StartSolver

NextVisitor ==
    \/ Iterate \/ Deliver \/ Continue
    \/ AddColumn \/ AddRow \/ CallSearch
    \/ SearchStopped \/ SearchSolution \/ SearchDeadEnd \/ SearchCover
    \/ TryRow \/ AfterCall \/ LoopExit

SpecVisitor == InitVisitor /\ [][NextVisitor]_vars

(***************************************************************************)
(* Both engines on the same placements: DancingLinks.search on the matrix  *)
(* of a configuration, and solve_exact_cover(limit=None) on the table      *)
(* mondrian_solver builds for the same board and pieces.                   *)
(***************************************************************************)
InitBoth ==
    /\ NoTable
    /\ NoGen
    /\ NoScore
    /\ NoBuild
    /\ StartSolver
    /\ cat = CatOfConfig(config)
    /\ limit = None
    /\ use_callback = FALSE
    /\ StartEngine

SpecBoth == InitBoth /\ [][NextVisitor]_vars

\* the loop that iterates the generator keeps asking for the next solution
FairSpecBoth == SpecBoth /\ WF_vars(NextEngine)

(***************************************************************************)
(* The sample command on any index file: load_index(path) where the file   *)
(* is a JSON object written by anyone, not only by save_index.  Its keys   *)
(* are strings over the decimal digits, ";" and a letter.                  *)
(***************************************************************************)
\* keys an index file may hold: ";"-joined integers of any number and order,
\* and strings that int does not accept
IndexKeys ==
    {KeyString(k) : k \in {<<1, 2, 3, 10, 20, 30>>, <<0, 1, 2>>, <<5, 4, 3, 2, 1, 0>>,
                           <<1, 1, 2, 3, 4, 5>>, <<0, 1, 2, 3, 4, 64>>,
                           <<0, 1, 2, 3, 4, 5, 6>>}}
    \cup {<<"a">>, << >>, <<"1", ";", ";", "2">>}

\* the objects json.loads may return: any of these keys, each with value 1
IndexFiles == {[ks \in S |-> 1] : S \in SUBSET IndexKeys}

InitLoad ==
    /\ NoTable
    /\ NoGen
    /\ NoScore
    /\ NoEngine
    /\ NoSearch
    /\ phase = "saved"
    /\ file \in IndexFiles
    /\ M = 0
    /\ counter = << >>
    /\ skipped_layouts = {}
    /\ n = 0
    /\ skipped_count = 0
    /\ interrupted = FALSE
    /\ layouts = None
    /\ seen = << >>
    /\ invalid_seen = 0

NextLoad == Load

SpecLoad == InitLoad /\ [][NextLoad]_vars


(***************************************************************************)
(* 9. calculate_difficulty_score (src/analyze_difficulty.py).  The board   *)
(*    is the source's 8 x 8 (the literal 7).  A cell is a record with row  *)
(*    and col; black_pieces is the list of the dict's values in order.     *)
(*                                                                         *)
(*    Python's float is the IEEE 754 double.  A number x of the function   *)
(*    is kept exactly as the pair (p, d) with x = p/12 + d * U, where      *)
(*    U = 2^-56 / 3: p is the value the arithmetic has over the rationals  *)
(*    (in twelfths: the divisions are by len(all_cells) and by twice it,   *)
(*    for 1, 2, 3 or 6 cells) and d the rounding error accumulated.  Every *)
(*    double of magnitude 2^-4 or more is a multiple of 2^-56 = 3 U.       *)
(***************************************************************************)
\* x rounded to the nearest double, ties to even: the result of one float
\* operation whose exact result is x
fl(x) ==
    LET \* the exponents k in -4..9 with p/12 + d U >= 2^k
        Exponents(p, d) ==
            {k \in (0 - 4)..9 : \/ 16 * p > 12 * 2^(k + 4)
                                \/ (16 * p = 12 * 2^(k + 4) /\ d >= 0)}
        \* the error of the double nearest to p/12 + d U > 0 whose exponent
        \* is m - 4: G is the spacing of the doubles there, in U, and r is
        \* (p 2^54 + d) modulo G; on a tie the even neighbour is taken
        RoundError(p, d, m, G, r) ==
            IF \/ 2 * r < G
               \/ /\ 2 * r = G
                  /\ (2^(m + 1) * ((p * (IF (53 - m) % 2 = 0 THEN 1 ELSE 2)) % 3)
                         + d - r) % (2 * G) = 0
            THEN d - r ELSE d - r + G
        RoundAt(p, d, m) ==
            RoundError(p, d, m, 3 * 2^m,
                       (2^m * ((p * (IF (54 - m) % 2 = 0 THEN 1 ELSE 2)) % 3) + d) % (3 * 2^m))
        \* below 2^-4 the value is a small multiple of 2^-56: exact
        RoundPositive(p, d) ==
            IF Exponents(p, d) = {} THEN [p |-> p, d |-> d]
            ELSE [p |-> p, d |-> RoundAt(p, d, Max(Exponents(p, d)) + 4)]
    IN  IF x.p < 0 \/ (x.p = 0 /\ x.d < 0)
        THEN [p |-> x.p, d |-> 0 - RoundPositive(0 - x.p, 0 - x.d).d]
        ELSE RoundPositive(x.p, x.d)

\* int / int (the divisor divides 12), float - float, float + float and
\* float * int; an int operand is converted exactly
FloatDiv(i, j) == fl([p |-> i * (12 \div j), d |-> 0])
FloatSub(x, y) == fl([p |-> x.p - y.p, d |-> x.d - y.d])
FloatAdd(x, y) == fl([p |-> x.p + y.p, d |-> x.d + y.d])
FloatMul(x, i) == fl([p |-> i * x.p, d |-> i * x.d])

\* the float of an int, and float comparison with an int
float(i) == [p |-> 12 * i, d |-> 0]
FloatLess(x, i) == x.p < 12 * i \/ (x.p = 12 * i /\ x.d < 0)

\* round(x, 2), in hundredths: the nearest hundredth of the exact value (x is
\* never half-way between two hundredths: 100 p/12 is a multiple of 1/3)
round2(x) == (50 * x.p + 3) \div 6

RECURSIVE SumList(_)
\* sum of a list of ints
SumList(s) == IF s = << >> THEN 0 ELSE Head(s) + SumList(Tail(s))

\* the four neighbours in the order of the source's list
Neighbours(row, col) ==
    <<[row |-> row, col |-> col + 1], [row |-> row, col |-> col - 1],
      [row |-> row + 1, col |-> col], [row |-> row - 1, col |-> col]>>

RECURSIVE dfs_forward(_, _, _)
\* dfs that goes on to the right and downwards only
dfs_forward(visited_cells, cell_set, cell) ==
    IF cell \in visited_cells \/ cell \notin cell_set THEN visited_cells
    ELSE LET nb == Neighbours(cell.row, cell.col)
             v1 == dfs_forward(visited_cells \cup {cell}, cell_set, nb[1])
         IN  dfs_forward(v1, cell_set, nb[3])

RECURSIVE dfs(_, _, _)
\* dfs(row, col) on the visited set: the visited set after the call
dfs(visited_cells, cell_set, cell) ==
    IF cell \in visited_cells \/ cell \notin cell_set THEN visited_cells
    ELSE LET nb == Neighbours(cell.row, cell.col)
             v0 == visited_cells \cup {cell}
             v1 == dfs(v0, cell_set, nb[1])
             v2 == dfs(v1, cell_set, nb[2])
             v3 == dfs(v2, cell_set, nb[3])
         IN  dfs(v3, cell_set, nb[4])

RECURSIVE CountRegions(_, _, _, _)
\* the loop `for cell in all_cells` that counts the regions, from position i
CountRegions(all_cells, i, visited_cells, regions) ==
    IF i > Len(all_cells) THEN regions
    ELSE IF all_cells[i] \in visited_cells
         THEN CountRegions(all_cells, i + 1, visited_cells, regions)
         ELSE CountRegions(all_cells, i + 1,
                           dfs(visited_cells, Range(all_cells), all_cells[i]), regions + 1)

\* the two mirror tests and the symmetry score (lines 78-98)
symmetry_both(all_cells, cell_map) ==
    /\ \A i \in 1..Len(all_cells) :
          [row |-> all_cells[i].row, col |-> 7 - all_cells[i].col] \in cell_map
    /\ \A i \in 1..Len(all_cells) :
          [row |-> 7 - all_cells[i].row, col |-> all_cells[i].col] \in cell_map

symmetric(all_cells, cell_map) ==
    LET horizontal_symmetric ==
            \A i \in 1..Len(all_cells) :
                [row |-> all_cells[i].row, col |-> 7 - all_cells[i].col] \in cell_map
        vertical_symmetric ==
            \A i \in 1..Len(all_cells) :
                [row |-> 7 - all_cells[i].row, col |-> all_cells[i].col] \in cell_map
    IN  horizontal_symmetric \/ vertical_symmetric

\* the tests of the chain in another order
BucketMisordered(total_score) ==
    IF FloatLess(total_score, 100) THEN "advanced"
    ELSE IF FloatLess(total_score, 50) THEN "beginner"
    ELSE IF FloatLess(total_score, 150) THEN "master"
    ELSE "grandmaster"

\* the bucket of a total
Bucket(total_score) ==
    IF FloatLess(total_score, 50) THEN "beginner"
    ELSE IF FloatLess(total_score, 100) THEN "advanced"
    ELSE IF FloatLess(total_score, 150) THEN "master"
    ELSE "grandmaster"

\* max(0, x) of a float x
FloatMax0(x) == IF FloatLess(x, 0) THEN float(0) ELSE x

\* edge_distance and adjacent_pairs: the two loops that add up
edge_distance(all_cells) ==
    SumList([i \in 1..Len(all_cells) |->
                Min({all_cells[i].row, all_cells[i].col,
                     7 - all_cells[i].row, 7 - all_cells[i].col})])

adjacent_pairs(all_cells, cell_map) ==
    SumList([i \in 1..Len(all_cells) |->
                Cardinality({j \in 1..4 :
                    Neighbours(all_cells[i].row, all_cells[i].col)[j] \in cell_map})])

total_spread(all_cells) ==
    (Max({all_cells[i].col : i \in 1..Len(all_cells)})
        - Min({all_cells[i].col : i \in 1..Len(all_cells)}))
    + (Max({all_cells[i].row : i \in 1..Len(all_cells)})
        - Min({all_cells[i].row : i \in 1..Len(all_cells)}))

corner_occupied(cell_map) ==
    Cardinality({[row |-> 0, col |-> 0], [row |-> 0, col |-> 7],
                 [row |-> 7, col |-> 0], [row |-> 7, col |-> 7]} \cap cell_map)

\* the six factor scores (locals of the function) for a non-empty all_cells
factor_scores(all_cells) ==
    [spread_score            |-> Min({total_spread(all_cells) * 10, 100}),
     fragmentation_score     |-> (CountRegions(all_cells, 1, {}, 0) - 1) * 30,
     edge_proximity_score    |->
        FloatMax0(FloatMul(FloatSub(float(3),
                                    FloatDiv(edge_distance(all_cells), Len(all_cells))), 20)),
     connectivity_score      |->
        FloatMul(FloatSub(float(1),
                          FloatDiv(adjacent_pairs(all_cells, Range(all_cells)),
                                   Len(all_cells) * 2)), 40),
     symmetry_score          |-> IF symmetric(all_cells, Range(all_cells)) THEN 0 - 20 ELSE 0,
     corner_occupation_score |-> corner_occupied(Range(all_cells)) * 15]

\* total_score = max(0, the sum of the six, left to right)
SumScores(f) ==
    FloatMax0(FloatAdd(FloatAdd(FloatAdd(FloatAdd(float(f.spread_score + f.fragmentation_score),
                                                  f.edge_proximity_score),
                                         f.connectivity_score),
                                float(f.symmetry_score)),
                       float(f.corner_occupation_score)))

total_score(all_cells) == SumScores(factor_scores(all_cells))

\* the dict returned for a non-empty all_cells, from the locals
ScoreRecord(all_cells, f, total) ==
    [total_score |-> round2(total),
     difficulty  |-> Bucket(total),
     factors     |->
        [spread |-> [score |-> 100 * f.spread_score, value |-> total_spread(all_cells)],
         fragmentation |-> [score |-> 100 * f.fragmentation_score,
                            value |-> CountRegions(all_cells, 1, {}, 0)],
         edge_proximity |->
            [score |-> round2(f.edge_proximity_score),
             value |-> round2(FloatDiv(edge_distance(all_cells), Len(all_cells)))],
         connectivity |->
            [score |-> round2(f.connectivity_score),
             value |-> round2(FloatDiv(adjacent_pairs(all_cells, Range(all_cells)),
                                       Len(all_cells) * 2))],
         symmetry |-> [score |-> 100 * f.symmetry_score,
                       value |-> IF symmetric(all_cells, Range(all_cells)) THEN 1 ELSE 0],
         corner_occupation |-> [score |-> 100 * f.corner_occupation_score,
                                value |-> corner_occupied(Range(all_cells))]]]

\* the dict returned for an empty input
EmptyScore == [total_score |-> 0, difficulty |-> "beginner", factors |-> << >>]

\* all_cells after the loop over black_pieces_info.values()
AllCells(black_pieces_info) ==
    Flatten([i \in 1..Len(black_pieces_info) |-> black_pieces_info[i].cells])

\* calculate_difficulty_score(black_pieces_info): numbers passed through
\* round(.., 2) are in hundredths, the other values are the source's ints;
\* the description strings are left out
calculate_difficulty_score(black_pieces_info) ==
    IF black_pieces_info = << >> \/ AllCells(black_pieces_info) = << >> THEN EmptyScore
    ELSE ScoreRecord(AllCells(black_pieces_info),
                     factor_scores(AllCells(black_pieces_info)),
                     total_score(AllCells(black_pieces_info)))

\* the cell of a cell index of the 8 x 8 board
ScoreCell(c) == [row |-> c \div 8, col |-> c % 8]

\* the layouts scored: every six cells of a pool with the four corners, two
\* mirror pairs and a central block, and two layouts outside it
ScoreLayouts ==
    {S \in SUBSET {0, 1, 2, 7, 24, 31, 56, 63, 27, 28, 35, 36} : Cardinality(S) = 6}
    \cup {{27, 28, 29, 35, 36, 37}, {1, 2, 3, 9, 10, 24}}

\* orders in which the dict lists the six cells
ScoreOrders == {<<1, 2, 3, 4, 5, 6>>, <<6, 5, 4, 3, 2, 1>>, <<4, 1, 6, 2, 5, 3>>}

\* black_pieces for a layout: the 1x3, the 1x2 and the 1x1 piece get the
\* cells in the order o
PiecesOf(S, o) ==
    LET c == [i \in 1..6 |-> ScoreCell(SortInts(S)[o[i]])]
    IN  <<[cells |-> <<c[1], c[2], c[3]>>], [cells |-> <<c[4], c[5]>>], [cells |-> <<c[6]>>]>>

\* the arguments: the layouts in each order, an empty dict, a piece without cells
ScoreInputs ==
    {PiecesOf(S, o) : S \in ScoreLayouts, o \in ScoreOrders}
    \cup {<< >>, <<[cells |-> << >>]>>}

\* score_data = calculate_difficulty_score(black_pieces)
Score ==
    /\ score_data = << >>
    /\ score_data' = <<calculate_difficulty_score(black_pieces)>>
    /\ UNCHANGED <<engineVars, buildVars, dlxVars, reportVars, black_pieces, tableVars, genVars>>

InitScore ==
    /\ NoTable
    /\ NoGen
    /\ NoEngine
    /\ NoBuild
    /\ NoSearch
    /\ black_pieces \in ScoreInputs
    /\ score_data = << >>

NextScore == Score

SpecScore == InitScore /\ [][NextScore]_vars

(***************************************************************************)
(* 10. The import of mondrian_solver: ORIENTATIONS (lines 133-135), then   *)
(*     ALL_ROWS piece by piece (lines 170-172), for the source's piece     *)
(*     list on boards of BOARD_W x BOARD_H cells; the source fixes 8 x 8.  *)
(***************************************************************************)
\* RAW_PIECES of the source, in the order of the dict
RAW_PIECES ==
    << Piece("R_3x4", 3, 4), Piece("B_3x3", 3, 3), Piece("B_2x2", 2, 2),
       Piece("W_1x5", 1, 5), Piece("W_1x4", 1, 4), Piece("Y_2x5", 2, 5),
       Piece("Y_2x4", 2, 4), Piece("Y_2x3", 2, 3), Piece("K_1x3", 1, 3),
       Piece("K_1x2", 1, 2), Piece("K_1x1", 1, 1) >>

\* the largest board side the table is built for
MaxBoard == 8

Boards == {[W |-> w, H |-> h, RAW_PIECES |-> RAW_PIECES] : w, h \in 1..MaxBoard}

\* ORIENTATIONS = {name: sorted(all_orientations(cells)) for ...}
ImportOrientations ==
    /\ BOARD # << >>
    /\ orientations = << >>
    /\ orientations' = [i \in 1..N_PIECES(BOARD) |-> ORIENTATIONS(BOARD.RAW_PIECES[i].cells)]
    /\ UNCHANGED <<BOARD, pname, ALL_ROWS>>
    /\ UNCHANGED <<engineVars, buildVars, dlxVars, reportVars, scoreVars, genVars>>

\* for pname in PIECE_ORDER: ALL_ROWS.extend(placements_for_piece(pname))
ExtendRows ==
    /\ orientations # << >>
    /\ pname < N_PIECES(BOARD)
    /\ ALL_ROWS' = ALL_ROWS \o placements_for_piece(BOARD, pname)
    /\ pname' = pname + 1
    /\ UNCHANGED <<BOARD, orientations>>
    /\ UNCHANGED <<engineVars, buildVars, dlxVars, reportVars, scoreVars, genVars>>

InitTable ==
    /\ NoGen
    /\ NoEngine
    /\ NoBuild
    /\ NoSearch
    /\ NoScore
    /\ BOARD \in Boards
    /\ orientations = << >>
    /\ pname = 0
    /\ ALL_ROWS = << >>

NextTable == ImportOrientations \/ ExtendRows

SpecTable == InitTable /\ [][NextTable]_vars

(***************************************************************************)
(* Properties.                                                             *)
(***************************************************************************)
Saved == phase \in {"saved", "loaded"}

\* the keys written to the index file
FileKeys == {ParseKey(ks) : ks \in DOMAIN file}

\* the tilings of the board in use whose black cells are the key k
TilingsWithKey(k) ==
    {t \in TILINGS[cat] :
        /\ ~BlackCountInvalid(GLOBALS[cat], SortInts(t))
        /\ black_cells_from_solution(GLOBALS[cat], SortInts(t)) = k}

\* C1: after build_index with no limit followed by save_index, every key
\* written to the index is the black-cell key of exactly one tiling.
C1_IndexKeysHaveOneTiling ==
    (Saved /\ limit = None) =>
        \A k \in FileKeys : Cardinality(TilingsWithKey(k)) = 1

\* C2: solve_exact_cover with limit=None and no callback yields every exact
\* cover of the columns by rows of the table: eventually each has been yielded.
C2_EveryCoverYielded ==
    <>((limit = None /\ ~use_callback) => TILINGS[cat] \subseteq {Range(sol) : sol \in yielded})

\* C3: solve_exact_cover with limit=None terminates on every table: the
\* generator is eventually exhausted.
C3_Terminates == <>(limit = None => pc = "done")

\* sol is a list of N_PIECES rows, one for each piece, with pairwise disjoint
\* cell sets that cover the board
OnePerPieceTiling(G, sol) ==
    /\ Len(sol) = G.N_PIECES
    /\ \A i \in DOMAIN G.PIECE_ORDER :
          Cardinality({j \in 1..Len(sol) : G.ALL_ROWS[sol[j]].piece = G.PIECE_ORDER[i]}) = 1
    /\ \A i, j \in 1..Len(sol) :
          i # j => Range(G.ALL_ROWS[sol[i]].cells) \cap Range(G.ALL_ROWS[sol[j]].cells) = {}
    /\ UNION {Range(G.ALL_ROWS[sol[j]].cells) : j \in 1..Len(sol)} = 0..(G.N_CELLS - 1)

\* the rows of sol that place a black piece
BlackRows(G, sol) == {j \in 1..Len(sol) : G.ALL_ROWS[sol[j]].piece \in BLACK_NAMES}

\* the black pieces of the catalogue and the cells they have together
BlackPieces(C) == {i \in 1..Len(C.RAW_PIECES) : C.RAW_PIECES[i].name \in BLACK_NAMES}

RECURSIVE SumOver(_, _)
SumOver(f, S) == IF S = {} THEN 0
                 ELSE LET x == CHOOSE y \in S : TRUE IN f[x] + SumOver(f, S \ {x})

BlackArea(C) == SumOver([i \in 1..Len(C.RAW_PIECES) |-> Cardinality(C.RAW_PIECES[i].cells)],
                        BlackPieces(C))

\* the catalogue has the three black pieces of the source (3 + 2 + 1 cells)
SourceBlacks(C) == {C.RAW_PIECES[i].name : i \in BlackPieces(C)} = BLACK_NAMES /\ BlackArea(C) = 6

\* C4: every solution yielded is one row for each piece (11 in the source's
\* catalogue), the rows pairwise disjoint and covering every cell, and its
\* black rows cover as many cells as the black pieces have: with the
\* source's three black pieces, three rows and 6 cells.
C4_YieldedAreTilings ==
    \A sol \in yielded :
        /\ OnePerPieceTiling(GLOBALS[cat], sol)
        /\ Cardinality(BlackRows(GLOBALS[cat], sol)) = Cardinality(BlackPieces(Catalogues[cat]))
        /\ Cardinality(UNION {Range(GLOBALS[cat].ALL_ROWS[sol[j]].cells) :
                                 j \in BlackRows(GLOBALS[cat], sol)}) = BlackArea(Catalogues[cat])
        /\ SourceBlacks(Catalogues[cat]) =>
              /\ Cardinality(BlackRows(GLOBALS[cat], sol)) = 3
              /\ Len(BlackCellList(GLOBALS[cat], sol)) = 6

\* C4 witness: a solution of the 4 x 3 board with its four pieces was yielded
C4_Witness ==
    /\ cat = 1
    /\ SourceBlacks(Catalogues[cat])
    /\ \E sol \in yielded : Len(sol) = 4

\* what is left of a top-level call of search: two steps for each frame, one
\* more at the entry of a call or behind a recursive call
SearchMeasure == 2 * Len(frames) + (IF dpc \in {"call", "return"} THEN 1 ELSE 0)

\* C5: once the visitor has returned False the engine shows it no further
\* solution and yields none, the rejected one included.  DancingLinks.search
\* only unwinds from then on (every step takes it nearer to its return) and
\* has returned with no frame left and an empty partial solution;
\* solve_exact_cover ends at the refusal.
C5_NothingAfterVisitorRefuses ==
    [][/\ refused => visited' = visited
       /\ (refused /\ dpc # "done") => SearchMeasure' < SearchMeasure
       /\ dpc' = "done" => (frames' = << >> /\ dlx_solution' = << >>)
       /\ rejected' => (yielded' = yielded /\ pc' = "done")]_vars

\* C5 witness (dancing links): the visitor refused the second solution while
\* the search was three calls deep, and the top-level call has returned
C5_Witness ==
    /\ refused
    /\ dpc = "done"
    /\ Len(visited) = 2
    /\ Len(visited[2]) = 3

\* C6: for every cap M >= 0 (here without an interrupt), a key in the dead
\* set skipped_layouts is never written to the index by save_index.
C6_DeadKeyNeverSaved ==
    (Saved /\ ~interrupted) => \A k \in skipped_layouts : KeyString(k) \notin DOMAIN file

\* C7: with cap M = 2 or any larger cap, the keys persisted are exactly the
\* keys that occurred once in the stream of solutions (so the persisted set
\* is the same for every such cap, and a key seen twice is never persisted).
C7_CapTwoSuffices ==
    (Saved /\ M >= 2) =>
        DOMAIN file = {KeyString(k) : k \in {q \in DOMAIN seen : seen[q] = 1}}

\* C7 witness: an index saved with cap 2 after a stream in which one key
\* occurred once and another more often than the cap
C7_Witness ==
    /\ Saved
    /\ M = 2
    /\ \E k1, k2 \in DOMAIN seen : seen[k1] = 1 /\ seen[k2] > M

\* C8 as claimed: the count stored for a key never exceeds the cap M.
C8_CountNeverExceedsCap == \A k \in DOMAIN counter : counter[k] <= M

\* C8 amended: the count stored for a key never exceeds M + 1, and a key is
\* in the dead set exactly when its count is M + 1 (the solution that
\* arrives at count M is counted and moves the key to the dead set).
C8_CountAtMostCapPlusOne ==
    \A k \in DOMAIN counter :
        /\ counter[k] <= M + 1
        /\ k \in skipped_layouts <=> counter[k] = M + 1

\* C8 witness: a key received more often than M + 1 times under a cap M >= 1
C8_Witness ==
    /\ M >= 1
    /\ \E k \in DOMAIN counter : seen[k] > M + 1 /\ counter[k] = M + 1 /\ skipped_count > 0

\* C9: a solution whose black-cell list has not 6 cells aborts build_index
\* with the error: once one was received, the build has ended in RuntimeError.
C9_InvalidSolutionAborts == invalid_seen > 0 => phase = "RuntimeError"

total_colored(C) ==
    SumOver([i \in 1..Len(C.RAW_PIECES) |-> Cardinality(C.RAW_PIECES[i].cells)],
            {i \in 1..Len(C.RAW_PIECES) :
                ~\E j \in 1..Len(C.RAW_PIECES) :
                    /\ C.RAW_PIECES[j].cells = C.RAW_PIECES[i].cells
                    /\ C.RAW_PIECES[j].name \in BLACK_NAMES})

\* sum(len(cells) ...) over the black pieces
total_black(C) == BlackArea(C)

\* validate_pieces() returns True
validate_pieces(C) == total_colored(C) + total_black(C) = N_CELLS(C)

\* the limit test_solver passes to solve_exact_cover
TestLimit == 2

\* solve_exact_cover(limit=lim) called: a new generator
CallEngine(lim) ==
    /\ limit' = lim
    /\ pc' = "loop"
    /\ unavailable_cols' = {}
    /\ chosen_rows' = << >>
    /\ stack' = << >>
    /\ solutions_found' = 0
    /\ solution' = << >>
    /\ yielded' = {}
    /\ rejected' = FALSE
    /\ col_order' = GLOBALS[cat].col_order
    /\ UNCHANGED <<cat, use_callback>>

\* main: `if not validate_pieces(): ... return`, else test_solver() is entered
Validate ==
    /\ phase = "main"
    /\ IF validate_pieces(Catalogues[cat])
       THEN /\ phase' = "test"
            /\ CallEngine(TestLimit)
       ELSE /\ phase' = "validation_failed"
            /\ UNCHANGED engineVars
    /\ UNCHANGED <<M, counter, skipped_layouts, n, skipped_count, interrupted,
                   file, layouts, seen, invalid_seen>>
    /\ UNCHANGED <<dlxVars, reportVars, scoreVars, tableVars, genVars>>

\* test_solver: list(solve_exact_cover(limit=limit)) runs the generator
TestIterate == phase = "test" /\ Iterate
TestDeliver == phase = "test" /\ Deliver
TestContinue == phase = "test" /\ Continue

\* test_solver after list(...): black_cells_from_solution of each solution;
\* an exception makes it return False and main return; otherwise main goes
\* on to build_index(max_solutions_per_layout=M)
TestDone ==
    /\ phase = "test"
    /\ pc = "done"
    /\ IF \E sol \in yielded : BlackCountInvalid(GLOBALS[cat], sol)
       THEN /\ phase' = "test_failed"
            /\ UNCHANGED engineVars
       ELSE /\ phase' = "building"
            /\ CallEngine(None)
    /\ UNCHANGED <<M, counter, skipped_layouts, n, skipped_count, interrupted,
                   file, layouts, seen, invalid_seen>>
    /\ UNCHANGED <<dlxVars, reportVars, scoreVars, tableVars, genVars>>

\* KeyboardInterrupt inside test_solver: not an Exception, it leaves main
TestInterrupt ==
    /\ phase = "test"
    /\ pc # "done"
    /\ phase' = "KeyboardInterrupt"
    /\ UNCHANGED <<M, counter, skipped_layouts, n, skipped_count, interrupted,
                   file, layouts, seen, invalid_seen>>
    /\ UNCHANGED engineVars
    /\ UNCHANGED <<dlxVars, reportVars, scoreVars, tableVars, genVars>>

\* the exit status of the process once main has ended (1: any non-zero)
ExitStatus ==
    IF phase \in {"validation_failed", "test_failed", "saved"} THEN 0
    ELSE IF phase = "KeyboardInterrupt" THEN 1
    ELSE None

InitMain ==
    /\ NoTable
    /\ NoGen
    /\ NoScore
    /\ cat \in CatIds
    /\ limit = None
    /\ use_callback = FALSE
    /\ pc = "idle"
    /\ col_order = << >>
    /\ unavailable_cols = {}
    /\ chosen_rows = << >>
    /\ stack = << >>
    /\ solutions_found = 0
    /\ solution = << >>
    /\ yielded = {}
    /\ rejected = FALSE
    /\ phase = "main"
    /\ M \in 0..MaxCap
    /\ counter = << >>
    /\ skipped_layouts = {}
    /\ n = 0
    /\ skipped_count = 0
    /\ interrupted = FALSE
    /\ file = None
    /\ layouts = None
    /\ seen = << >>
    /\ invalid_seen = 0
    /\ NoSearch

NextMain ==
    \/ Validate \/ TestIterate \/ TestDeliver \/ TestContinue \/ TestDone \/ TestInterrupt
    \/ GenStep \/ GenResume \/ GenYield \/ Body \/ GenEnd \/ Interrupt \/ Save

SpecMain == InitMain /\ [][NextMain]_vars

\* the areas of all pieces of the catalogue together
TotalArea(C) ==
    SumOver([i \in 1..Len(C.RAW_PIECES) |-> Cardinality(C.RAW_PIECES[i].cells)],
            1..Len(C.RAW_PIECES))

\* C13: the build command ends with a non-zero exit status when the
\* catalogue's total area is not the board's (64 in the source) and when a
\* solution with a black-cell count other than 6 was met; it ends with
\* status 0 only when the index was built and saved.
C13_ExitStatusTellsFailure ==
    ExitStatus # None =>
        /\ TotalArea(Catalogues[cat]) # N_CELLS(Catalogues[cat]) => ExitStatus # 0
        /\ (invalid_seen > 0 \/ \E sol \in yielded : BlackCountInvalid(GLOBALS[cat], sol))
              => ExitStatus # 0
        /\ ExitStatus = 0 => phase = "saved"

\* k is six strictly ascending cell indices in 0..63
WellFormedKey(k) ==
    /\ Len(k) = 6
    /\ \A i \in 1..Len(k) : k[i] \in 0..63
    /\ \A i \in 1..(Len(k) - 1) : k[i] < k[i + 1]

\* C11: load_index never returns a list that holds a key other than six
\* strictly ascending integers in 0..63: when the file has such a key the
\* load fails.
C11_LoadRejectsMalformedKeys ==
    phase = "loaded" => \A k \in layouts : WellFormedKey(k)

\* C12: for every solution yielded by solve_exact_cover (catalogue with the
\* source's three black pieces), black_cells_from_solution does not raise
\* and returns six strictly ascending cell indices in 0..63, cells of the
\* board, that are exactly the cells of the solution's K_1x3, K_1x2 and
\* K_1x1 rows.
C12_BlackKeyOfYielded ==
    \A sol \in yielded :
        SourceBlacks(Catalogues[cat]) =>
            LET G   == GLOBALS[cat]
                key == black_cells_from_solution(G, sol)
            IN  /\ ~BlackCountInvalid(G, sol)
                /\ WellFormedKey(key)
                /\ Range(key) \subseteq 0..(G.N_CELLS - 1)
                /\ Range(key) =
                      UNION {Range(G.ALL_ROWS[sol[j]].cells) :
                                j \in {i \in 1..Len(sol) :
                                          G.ALL_ROWS[sol[i]].piece \in {"K_1x3", "K_1x2", "K_1x1"}}}

\* C12 witness: a solution of the 4 x 3 board was yielded whose black rows
\* list their cells out of ascending order
C12_Witness ==
    /\ cat = 1
    /\ \E sol \in yielded :
          /\ Len(BlackCellList(GLOBALS[cat], sol)) = 6
          /\ BlackCellList(GLOBALS[cat], sol) # black_cells_from_solution(GLOBALS[cat], sol)

\* C14: a build_index run that was interrupted before the enumeration was
\* complete is told from a complete one by the build command, which does not
\* write its partial result as the index of unique layouts.
C14_PartialBuildNotPersisted == interrupted => ~Saved

\* the set of cells of the argument scored, and the layout of a key
InputCells == Range(AllCells(black_pieces))
LayoutOf(key) == {ScoreCell(c) : c \in key}

C17_FactorsNonNegative ==
    (score_data # << >> /\ Len(AllCells(black_pieces)) = 6 /\ Cardinality(InputCells) = 6) =>
        LET f == factor_scores(AllCells(black_pieces))
        IN  /\ f.spread_score >= 0
            /\ f.fragmentation_score >= 0
            /\ ~FloatLess(f.edge_proximity_score, 0)
            /\ ~FloatLess(f.connectivity_score, 0)
            /\ f.corner_occupation_score >= 0

\* S is its own image under the mirror col -> 7 - col or under row -> 7 - row
MirrorInvariant(S) ==
    \/ {[row |-> c.row, col |-> 7 - c.col] : c \in S} = S
    \/ {[row |-> 7 - c.row, col |-> c.col] : c \in S} = S

\* C18: the symmetry factor is exactly -20 when the cell set is invariant
\* under the mirror col -> 7 - col or under the mirror row -> 7 - row, and
\* exactly 0 otherwise, in the sum and in the record returned (hundredths);
\* the layout (0, 7, 24, 31, 56, 63) gets -20.
C18_SymmetryFactor ==
    (score_data # << >> /\ InputCells # {}) =>
        /\ factor_scores(AllCells(black_pieces)).symmetry_score =
              (IF MirrorInvariant(InputCells) THEN 0 - 20 ELSE 0)
        /\ score_data[1].factors.symmetry.score =
              (IF MirrorInvariant(InputCells) THEN 0 - 2000 ELSE 0)
        /\ InputCells = LayoutOf({0, 7, 24, 31, 56, 63}) =>
              score_data[1].factors.symmetry.score = 0 - 2000

\* C18 witness: the layout (0, 7, 24, 31, 56, 63), invariant under one mirror
\* only, was scored
C18_Witness ==
    /\ score_data # << >>
    /\ InputCells = LayoutOf({0, 7, 24, 31, 56, 63})
    /\ {[row |-> 7 - c.row, col |-> c.col] : c \in InputCells} # InputCells
    /\ score_data[1].factors.symmetry.value = 1

\* the argument that lists the cells of S in ascending order as one piece
CanonicalInput(S) ==
    IF S = {} THEN << >>
    ELSE <<[cells |-> [i \in 1..Cardinality(S) |->
                          ScoreCell(SortInts({c.row * 8 + c.col : c \in S})[i])]]>>

\* C19: the record returned depends only on the set of cells occupied: it is
\* the record returned for the same cells listed in ascending order as a
\* single piece, whatever the assignment of the cells to the pieces and
\* their order.
C19_ScoreDependsOnCellSetOnly ==
    score_data # << >> =>
        score_data[1] = calculate_difficulty_score(CanonicalInput(InputCells))

\* C19 witness: a layout with adjacent cells was scored from three pieces
\* that list its cells out of order
C19_Witness ==
    /\ score_data # << >>
    /\ black_pieces = PiecesOf({27, 28, 29, 35, 36, 37}, <<4, 1, 6, 2, 5, 3>>)
    /\ black_pieces # CanonicalInput(InputCells)
    /\ score_data[1].factors.fragmentation.value = 1

\* the (row, col) cells the black pieces of a solution cover, read off the
\* placements of its rows
BlackUnion(c, sol) ==
    {<<cell \div SolverConfigs[c].board_size, cell % SolverConfigs[c].board_size>> :
        cell \in UNION {Range(PLACEMENTS[c][r + 1].cells) :
                           r \in {q \in Range(sol) :
                                    SolverConfigs[c].pieces[PLACEMENTS[c][q + 1].piece_id + 1].color
                                       \in BlackColors}}}

\* the (row, col) cells listed in an entry of black_json_data
EntryCells(e) ==
    {<<cell.row, cell.col>> :
        cell \in UNION {Range(e.black_pieces[i].cells) : i \in 1..Len(e.black_pieces)}}

\* C20: after process_solution has handled any sequence of solutions the
\* recorded combinations hold exactly one entry for each distinct union of
\* black cells seen so far, the entry of the first solution with that union,
\* numbered in the order of recording: two solutions that colour the same
\* cells black never produce two entries.
C20_OneEntryPerBlackUnion ==
    /\ Len(black_json_data) =
          Cardinality({BlackUnion(config, visited[i]) : i \in 1..Len(visited)})
    /\ \A j \in 1..Len(black_json_data) :
          /\ black_json_data[j].combination_id = j
          /\ black_json_data[j].solution_id \in 1..Len(visited)
          /\ EntryCells(black_json_data[j]) =
                BlackUnion(config, visited[black_json_data[j].solution_id])
          /\ \A i \in 1..(black_json_data[j].solution_id - 1) :
                BlackUnion(config, visited[i]) # EntryCells(black_json_data[j])
          /\ \A k \in 1..(j - 1) :
                EntryCells(black_json_data[k]) # EntryCells(black_json_data[j])

\* C20 witness: two different solutions with the same black cells, covered
\* by different pieces, were handled and one of them was recorded
C20_Witness ==
    \E i, k \in 1..Len(visited) :
       /\ i < k
       /\ Range(visited[i]) # Range(visited[k])
       /\ BlackUnion(config, visited[i]) = BlackUnion(config, visited[k])
       /\ extract_black_pieces_info(config, visited[i]) #
             extract_black_pieces_info(config, visited[k])
       /\ \E j \in 1..Len(black_json_data) : black_json_data[j].solution_id = i
       /\ \A j \in 1..Len(black_json_data) : black_json_data[j].solution_id # k

\* the key test_json_structure builds for a combination: the (colour code,
\* top-left row, top-left column) triples of its black pieces
TopLeftKey(e) ==
    {<<e.black_pieces[i].color, e.black_pieces[i].position.top_left.row,
       e.black_pieces[i].position.top_left.col>> : i \in 1..Len(e.black_pieces)}

\* C21: no two combinations recorded in the black-position report have the
\* same set of (colour code, top-left row, top-left column) triples, for any
\* sequence of solutions processed.
C21_TopLeftKeysDistinct ==
    \A j, k \in 1..Len(black_json_data) :
        j # k => TopLeftKey(black_json_data[j]) # TopLeftKey(black_json_data[k])

\* the rows of ALL_ROWS that place the piece called name
RowsOf(name) == {k \in 1..Len(ALL_ROWS) : ALL_ROWS[k].piece = name}

\* the loop of lines 170-172 has dealt with the piece called name
Placed(name) ==
    \E i \in 1..pname : BOARD.RAW_PIECES[i].name = name

\* C22: the placement table (8 x 8 board) holds exactly 120 placements of
\* the piece R_3x4.
C22_RedHas120Placements ==
    (BOARD # << >> /\ BOARD.W = 8 /\ BOARD.H = 8 /\ Placed("R_3x4")) =>
        Cardinality(RowsOf("R_3x4")) = 120

\* C22 as amended: the placement table (8 x 8 board) holds exactly 60
\* placements of R_3x4, 30 for each of its two orientations.
C22_RedHas60Placements ==
    (BOARD # << >> /\ BOARD.W = 8 /\ BOARD.H = 8 /\ Placed("R_3x4")) =>
        /\ Cardinality(RowsOf("R_3x4")) = 60
        /\ Cardinality({ALL_ROWS[k].cells : k \in RowsOf("R_3x4")}) = 60
        /\ Cardinality({k \in RowsOf("R_3x4") : ALL_ROWS[k].cells[2] = ALL_ROWS[k].cells[1] + 1
                                                 /\ ALL_ROWS[k].cells[4] = ALL_ROWS[k].cells[1] + 3})
              = 30

\* C22 witness: the 8 x 8 table is complete and R_3x4 has rows in it
C22_Witness ==
    /\ BOARD # << >> /\ BOARD.W = 8 /\ BOARD.H = 8
    /\ pname = 11
    /\ RowsOf("R_3x4") # {}

\* the orientations of a rectangle of w by h cells, told by their bounding
\* boxes: w by h, and h by w when the sides differ
Boxes(w, h) == {<<w, h>>, <<h, w>>}

\* the sides of a piece of the catalogue, read off its prototype
SideX(piece) == 1 + Max({c[1] : c \in piece.cells})
SideY(piece) == 1 + Max({c[2] : c \in piece.cells})

\* the cells (board indices) of the box b put with its top-left corner on
\* column dx, row dy
BoxAt(b, dx, dy) == {(y + dy) * BOARD.W + x + dx : x \in 0..(b[1] - 1), y \in 0..(b[2] - 1)}

\* every translation of every orientation of a piece whose box lies on the
\* board
InBoard(piece) ==
    UNION {{BoxAt(b, dx, dy) : dx \in 0..(BOARD.W - b[1]), dy \in 0..(BOARD.H - b[2])} :
              b \in Boxes(SideX(piece), SideY(piece))}

\* (W-w+1)*(H-h+1), or 0 when the box is larger than the board
Translations(b) ==
    IF b[1] <= BOARD.W /\ b[2] <= BOARD.H
    THEN (BOARD.W - b[1] + 1) * (BOARD.H - b[2] + 1) ELSE 0

\* C23: for every piece the placement table holds each in-board translation
\* of each of its orientations exactly once and nothing else, so the number
\* of its placements is the sum over its orientations (bounding box w by h)
\* of (W-w+1)*(H-h+1); on the 8 x 8 board that is 36 for B_3x3 and 64 for
\* K_1x1.
C23_EachTranslationOnce ==
    BOARD # << >> =>
        \A i \in 1..pname :
            LET piece == BOARD.RAW_PIECES[i]
                rows == RowsOf(piece.name)
                boxes == Boxes(SideX(piece), SideY(piece))
            IN  /\ {Range(ALL_ROWS[k].cells) : k \in rows} = InBoard(piece)
                /\ \A k1, k2 \in rows :
                      k1 # k2 => ALL_ROWS[k1].cells # ALL_ROWS[k2].cells
                /\ Cardinality(rows) =
                      Translations(<<SideX(piece), SideY(piece)>>)
                      + (IF Cardinality(boxes) = 2
                         THEN Translations(<<SideY(piece), SideX(piece)>>) ELSE 0)
                /\ (BOARD.W = 8 /\ BOARD.H = 8 /\ piece.name = "B_3x3") =>
                      Cardinality(rows) = 36
                /\ (BOARD.W = 8 /\ BOARD.H = 8 /\ piece.name = "K_1x1") =>
                      Cardinality(rows) = 64

\* C23 witness: on a board that is not square every piece is placed, and a
\* piece has an orientation that fits while its other one does not
C23_Witness ==
    /\ BOARD # << >> /\ BOARD.W = 4 /\ BOARD.H = 8
    /\ pname = 11
    /\ Cardinality(RowsOf("W_1x5")) = 16
    /\ Cardinality(RowsOf("B_3x3")) = 12

\* the position of the piece called name in PIECE_ORDER, from 1
PieceIndex(name) == CHOOSE i \in 1..Len(BOARD.RAW_PIECES) : BOARD.RAW_PIECES[i].name = name

\* C24: orientation generation gives exactly two distinct orientations for
\* every piece that is a rectangle with unequal sides (R_3x4, W_1x5, W_1x4,
\* Y_2x5, Y_2x4, Y_2x3, K_1x3, K_1x2) and exactly one for every square piece
\* (B_3x3, B_2x2, K_1x1).
C24_OrientationCounts ==
    orientations # << >> =>
        /\ \A i \in 1..Len(orientations) :
              /\ Len(orientations[i]) =
                    (IF SideX(BOARD.RAW_PIECES[i]) = SideY(BOARD.RAW_PIECES[i]) THEN 1 ELSE 2)
              /\ \A a, b \in 1..Len(orientations[i]) :
                    a # b => Range(orientations[i][a]) # Range(orientations[i][b])
              /\ Range(orientations[i][1]) \in
                    {Rect(SideX(BOARD.RAW_PIECES[i]), SideY(BOARD.RAW_PIECES[i])),
                     Rect(SideY(BOARD.RAW_PIECES[i]), SideX(BOARD.RAW_PIECES[i]))}
        /\ \A name \in {"R_3x4", "W_1x5", "W_1x4", "Y_2x5", "Y_2x4", "Y_2x3", "K_1x3", "K_1x2"} :
              Len(orientations[PieceIndex(name)]) = 2
        /\ \A name \in {"B_3x3", "B_2x2", "K_1x1"} :
              Len(orientations[PieceIndex(name)]) = 1

\* C24 witness: ORIENTATIONS is computed; R_3x4 has its 3 by 4 and its 4 by 3
\* orientation, K_1x1 its single cell
C24_Witness ==
    /\ orientations # << >>
    /\ {Range(orientations[1][a]) : a \in 1..Len(orientations[1])} = {Rect(3, 4), Rect(4, 3)}
    /\ orientations[11] = <<(<<(<<0, 0>>)>>)>>

\* C25: for every row of the placement table the number of cells it covers
\* is the size of its piece, all its cell indices are on the board (0..63
\* on the 8 x 8 board), its bitmask has the bit N_CELLS + (index of its piece
\* in PIECE_ORDER) set (64 + index on the 8 x 8 board) and no other bit at
\* position N_CELLS or above, and the bits below are exactly its cells.
C25_RowsWellFormed ==
    BOARD # << >> =>
        \A k \in 1..Len(ALL_ROWS) :
            LET row == ALL_ROWS[k]
                i == PieceIndex(row.piece)
            IN  /\ Len(row.cells) = Cardinality(BOARD.RAW_PIECES[i].cells)
                /\ Cardinality(Range(row.cells)) = Len(row.cells)
                /\ Range(row.cells) \subseteq 0..(BOARD.W * BOARD.H - 1)
                /\ {b \in row.bitmask : b >= BOARD.W * BOARD.H} = {BOARD.W * BOARD.H + i - 1}
                /\ {b \in row.bitmask : b < BOARD.W * BOARD.H} = Range(row.cells)
                /\ (BOARD.W = 8 /\ BOARD.H = 8) =>
                      /\ Range(row.cells) \subseteq 0..63
                      /\ 64 + i - 1 \in row.bitmask
                      /\ \A b \in row.bitmask : b >= 64 => b = 64 + i - 1

\* C25 witness: the complete 8 x 8 table, whose last row puts K_1x1 on cell 63
\* with the piece bit 74
C25_Witness ==
    /\ BOARD # << >> /\ BOARD.W = 8 /\ BOARD.H = 8
    /\ pname = 11
    /\ Len(ALL_ROWS) = 771
    /\ ALL_ROWS[771] = [bitmask |-> {63, 74}, piece |-> "K_1x1", cells |-> <<63>>]

\* C26: with limit = n for any integer n >= 0, solve_exact_cover yields at
\* most n solutions and then stops (solutions_found counts the yields the
\* generator was resumed from; one more is out while it is suspended).
C26_AtMostLimitYields ==
    limit # None =>
        solutions_found + (IF pc = "yielded" THEN 1 ELSE 0) <= limit

\* the columns not covered by mask
Uncovered(G, mask) == (0..(G.N_COLS - 1)) \ mask

\* the rows of the table that cover column col and overlap no column of mask
CompatibleRows(G, col, mask) ==
    {r \in DOMAIN G.ALL_ROWS : col \in G.ALL_ROWS[r].bitmask /\ G.ALL_ROWS[r].bitmask \cap mask = {}}

\* the positions above p of the list of column col whose row is compatible
\* with mask
LaterPositions(G, col, p, mask) ==
    {q \in DOMAIN G.COL_TO_ROWS[col] : q > p /\ G.COL_TO_ROWS[col][q] \in CompatibleRows(G, col, mask)}

\* the step backtracks out of the top frame for want of a fitting row and
\* the generator goes on
DeadEndBacktrack ==
    /\ pc = "loop" /\ pc' = "loop"
    /\ stack # << >>
    /\ stack' = SubSeq(stack, 1, Len(stack) - 1)

\* what the generator does next in the state after this step: the row it
\* adds, or None when it adds none (it backtracks, ends or yields)
RowTriedNext ==
    LET G == WithOrder(GLOBALS[cat], col_order)
        col == choose_next_col(G, unavailable_cols')
    IN  IF col = None THEN None
        ELSE IF FittingPositions(G, col, 0, unavailable_cols') = {} THEN None
        ELSE G.COL_TO_ROWS[col][Min(FittingPositions(G, col, 0, unavailable_cols'))]

\* C27: at each search node the compatible rows of the chosen column are
\* tried in COL_TO_ROWS order, each exactly once: after the engine backtracks
\* out of the row at list position p of that column, the next row it tries at
\* that node is the first compatible row at a position greater than p, and
\* when none remains it backtracks one level further.
C27_RowsTriedInOrderOnce ==
    [][DeadEndBacktrack =>
          LET G == GLOBALS[cat]
              f == stack[Len(stack)]
              later == LaterPositions(G, f.col, f.next_pos - 1, unavailable_cols')
          IN  RowTriedNext = (IF later = {} THEN None ELSE G.COL_TO_ROWS[f.col][Min(later)])]_vars

\* C28: within one run solve_exact_cover never yields the same solution (the
\* same set of rows) twice.
C28_NoSolutionYieldedTwice ==
    [][(pc = "loop" /\ pc' = "yielded") =>
          Range(chosen_rows) \notin {Range(sol) : sol \in yielded}]_vars

\* C29: in every search state choose_next_col returns an uncovered column
\* whose number of rows compatible with the covered mask is minimal over the
\* uncovered columns; it returns None only when every column is covered.
C29_ChoosesColumnWithFewestRows ==
    pc = "loop" =>
        LET G == WithOrder(GLOBALS[cat], col_order)
            col == choose_next_col(G, unavailable_cols)
        IN  IF Uncovered(G, unavailable_cols) = {} THEN col = None
            ELSE /\ col \in Uncovered(G, unavailable_cols)
                 /\ \A c \in Uncovered(G, unavailable_cols) :
                       Cardinality(CompatibleRows(G, col, unavailable_cols))
                          <= Cardinality(CompatibleRows(G, c, unavailable_cols))

\* C30: whenever some uncovered column has zero rows compatible with the
\* covered mask the engine adds no row in that state: its next step is a
\* backtrack, or termination when the stack is empty.
C30_DeadColumnPrunes ==
    [][(/\ pc = "loop"
        /\ \E c \in Uncovered(GLOBALS[cat], unavailable_cols) :
              CompatibleRows(GLOBALS[cat], c, unavailable_cols) = {})
       => IF stack = << >> THEN pc' = "done"
          ELSE /\ pc' = "loop"
               /\ stack' = SubSeq(stack, 1, Len(stack) - 1)
               /\ chosen_rows' = SubSeq(chosen_rows, 1, Len(chosen_rows) - 1)]_vars

\* the uncovered columns with the fewest rows compatible with mask
FewestColumns(G, mask) ==
    {c \in Uncovered(G, mask) :
        \A e \in Uncovered(G, mask) :
            Cardinality(CompatibleRows(G, c, mask)) <= Cardinality(CompatibleRows(G, e, mask))}

\* C31 as stated: without randomisation, when several uncovered columns
\* share the minimal number of compatible rows, the column chosen is the one
\* of them with the smallest column index.
C31_TiesBrokenByColumnIndex ==
    pc = "loop" =>
        LET G == WithOrder(GLOBALS[cat], col_order)
            few == FewestColumns(G, unavailable_cols)
        IN  Cardinality(few) > 1 => choose_next_col(G, unavailable_cols) = Min(few)

\* the position of column c in the list order
PositionIn(order, c) == CHOOSE i \in DOMAIN order : order[i] = c

\* C31, amended: ties are broken by the position in col_order, which lists
\* the columns by their total number of rows ascending and then by column
\* index: no uncovered column before the chosen one in col_order has as few
\* compatible rows as the chosen one.
C31_TiesBrokenByColOrder ==
    pc = "loop" =>
        LET G == WithOrder(GLOBALS[cat], col_order)
            col == choose_next_col(G, unavailable_cols)
        IN  /\ \A i, j \in DOMAIN col_order :
                  i < j => PairLess(<<LenZ(G.COL_TO_ROWS[col_order[i]]), col_order[i]>>,
                                    <<LenZ(G.COL_TO_ROWS[col_order[j]]), col_order[j]>>)
            /\ col # None =>
                  \A c \in Uncovered(G, unavailable_cols) :
                      PositionIn(col_order, c) < PositionIn(col_order, col) =>
                          Cardinality(CompatibleRows(G, c, unavailable_cols))
                             > Cardinality(CompatibleRows(G, col, unavailable_cols))

\* a state in which several columns tie on the fewest compatible rows and
\* the chosen one is one of them, yet not the one of smallest index
C31_Witness ==
    /\ pc = "loop"
    /\ LET G == WithOrder(GLOBALS[cat], col_order)
           few == FewestColumns(G, unavailable_cols)
           col == choose_next_col(G, unavailable_cols)
       IN  /\ Cardinality(few) > 1
           /\ col \in few
           /\ col # Min(few)

\* a solution of the dancing-links engine (row ids into self.placements) as
\* a set of placements: piece name and cells
DlxPlacementSet(c, sol) ==
    {<<SolverConfigs[c].pieces[PLACEMENTS[c][sol[i] + 1].piece_id + 1].name,
       Range(PLACEMENTS[c][sol[i] + 1].cells)>> : i \in DOMAIN sol}

\* a solution of the bitmask engine (indices into ALL_ROWS) as a set of
\* placements
RowPlacementSet(G, sol) ==
    {<<G.ALL_ROWS[sol[i]].piece, Range(G.ALL_ROWS[sol[i]].cells)>> : i \in DOMAIN sol}

\* the two tables hold the same placements
SamePlacements ==
    {<<SolverConfigs[config].pieces[PLACEMENTS[config][k].piece_id + 1].name,
       Range(PLACEMENTS[config][k].cells)>> : k \in DOMAIN PLACEMENTS[config]}
    = {<<GLOBALS[cat].ALL_ROWS[r].piece, Range(GLOBALS[cat].ALL_ROWS[r].cells)>> :
          r \in DOMAIN GLOBALS[cat].ALL_ROWS}

\* C32: on the same placements, once DancingLinks.search with a visitor that
\* always continues has returned, solve_exact_cover(limit=None) comes to have
\* yielded the same set of solutions, each taken as a set of placements.
C32_EnginesEmitSameSolutions ==
    []((dpc = "done" /\ ~refused /\ SamePlacements)
          => <>({RowPlacementSet(GLOBALS[cat], sol) : sol \in yielded}
                   = {DlxPlacementSet(config, visited[i]) : i \in DOMAIN visited}))

\* C33: at the start of every iteration of the main loop of
\* solve_exact_cover the covered mask is the OR of the bitmasks of the rows
\* in chosen_rows, those rows are pairwise disjoint, and the stack is as long
\* as chosen_rows with its i-th frame holding the i-th chosen row.
C33_LoopInvariant ==
    pc = "loop" =>
        LET G == GLOBALS[cat]
        IN  /\ unavailable_cols = UNION {G.ALL_ROWS[chosen_rows[i]].bitmask : i \in DOMAIN chosen_rows}
            /\ \A i, j \in DOMAIN chosen_rows :
                  i # j => G.ALL_ROWS[chosen_rows[i]].bitmask
                              \cap G.ALL_ROWS[chosen_rows[j]].bitmask = {}
            /\ Len(stack) = Len(chosen_rows)
            /\ \A i \in DOMAIN stack : stack[i].ridx = chosen_rows[i]

\* the loop is entered with two rows chosen after the engine has yielded
\* and backtracked
C33_Witness ==
    /\ pc = "loop"
    /\ solutions_found >= 1
    /\ Len(chosen_rows) >= 2

(***************************************************************************)
(* 11. src/test.py: class DLX.  Its nodes and links are those of section   *)
(*     7 (the constructor links a column and a row node as add_column and  *)
(*     add_row do, cover and uncover are the same code), kept in nodes,    *)
(*     dlx_solution and frames; dpc is "ctor" inside __init__,             *)
(*     "constructed" after it, "search" at the entry of a call of search,  *)
(*     "rows" at the test of its loop, "back" behind its recursive call    *)
(*     and "counted" once count_solutions has returned.                    *)
(***************************************************************************)
solverVars == <<config, search_stopped, visited, refused>>
attemptVars == <<generator, attempt, black_cells, result>>

\* limits a caller passes to count_solutions
MaxCount == 3

\* the matrices the class is run on: for each configuration of section 7
\* the rows of its placements (sorted, as get_placements leaves them) and
\* their number of columns; they have 8, 0, 1, 4 and 8 exact covers
Matrices ==
    {[rows |-> [k \in DOMAIN PLACEMENTS[c] |-> MatrixRow(SolverConfigs[c], PLACEMENTS[c][k])],
      num_cols |-> MatrixColumns(SolverConfigs[c])] : c \in ConfigIds}

\* __init__ up to its first loop: the header alone
NewDLX ==
    /\ nodes = EmptyLinks
    /\ dlx_solution = << >>
    /\ frames = << >>
    /\ solutions_count = 0
    /\ max_solutions = 2
    /\ timed_out = FALSE
    /\ num_solutions = None
    /\ calls = 0
    /\ dpc = "ctor"

\* the position of __init__ once the object is d
CtorPc(d, rows, ncols) ==
    IF Len(d.columns) = ncols /\ d.nrows = Len(rows) THEN "constructed" ELSE "ctor"

\* __init__: one pass of `for i in range(num_cols)` (lines 57-63)
CtorColumn ==
    /\ dpc = "ctor"
    /\ Len(nodes.columns) < num_cols
    /\ nodes' = add_column(nodes)
    /\ dpc' = CtorPc(nodes', matrix, num_cols)
    /\ UNCHANGED <<matrix, num_cols, max_solutions, solutions_count, timed_out, num_solutions,
                   dlx_solution, frames, calls>>
    /\ UNCHANGED <<engineVars, buildVars, reportVars, scoreVars, tableVars, solverVars,
                   attemptVars, poolVars>>

\* __init__: one pass of `for row_idx, row in enumerate(matrix)` (lines
\* 66-89); the row is taken as it is given
CtorRow ==
    /\ dpc = "ctor"
    /\ Len(nodes.columns) = num_cols
    /\ nodes.nrows < Len(matrix)
    /\ nodes' = AddRowNodes(nodes, matrix[nodes.nrows + 1], 1, None, None)
    /\ dpc' = CtorPc(nodes', matrix, num_cols)
    /\ UNCHANGED <<matrix, num_cols, max_solutions, solutions_count, timed_out, num_solutions,
                   dlx_solution, frames, calls>>
    /\ UNCHANGED <<engineVars, buildVars, reportVars, scoreVars, tableVars, solverVars,
                   attemptVars, poolVars>>

\* count_solutions(lim, timeout_seconds) up to its call of search
CountSolutions(lim) ==
    /\ dpc \in {"constructed", "counted"}
    /\ calls < MaxCalls
    /\ calls' = calls + 1
    /\ max_solutions' = lim
    /\ solutions_count' = 0
    /\ timed_out' = FALSE
    /\ dpc' = "search"
    /\ UNCHANGED <<matrix, num_cols, num_solutions, nodes, dlx_solution, frames>>
    /\ UNCHANGED <<engineVars, buildVars, reportVars, scoreVars, tableVars, solverVars,
                   attemptVars, poolVars>>

\* a call of search returns: into the loop of its caller, or out of
\* count_solutions, which returns solutions_count
Returned(fr, count) ==
    /\ dpc' = IF fr = << >> THEN "counted" ELSE "back"
    /\ num_solutions' = IF fr = << >> THEN count ELSE num_solutions

\* the test passed once more than max_solutions are counted
OverLimit(count, max) == count > max

\* if self.solutions_count >= self.max_solutions (line 127)
AtLimit(count, max) == count >= max

\* search entered after timeout_seconds: it returns at once (lines 124-125)
SearchTimeout ==
    /\ dpc = "search"
    /\ timed_out' = TRUE
    /\ Returned(frames, solutions_count)
    /\ UNCHANGED <<matrix, num_cols, max_solutions, solutions_count, nodes, dlx_solution,
                   frames, calls>>
    /\ UNCHANGED <<engineVars, buildVars, reportVars, scoreVars, tableVars, solverVars,
                   attemptVars, poolVars>>

\* search entered with max_solutions counted: it returns (lines 127-128)
SearchLimit ==
    /\ dpc = "search"
    /\ AtLimit(solutions_count, max_solutions)
    /\ Returned(frames, solutions_count)
    /\ UNCHANGED <<matrix, num_cols, max_solutions, solutions_count, timed_out, nodes,
                   dlx_solution, frames, calls>>
    /\ UNCHANGED <<engineVars, buildVars, reportVars, scoreVars, tableVars, solverVars,
                   attemptVars, poolVars>>

\* no column is left: a solution is counted (lines 130-133)
SearchCounted ==
    /\ dpc = "search"
    /\ ~AtLimit(solutions_count, max_solutions)
    /\ nodes.right[header] = header
    /\ solutions_count' = solutions_count + 1
    /\ Returned(frames, solutions_count + 1)
    /\ UNCHANGED <<matrix, num_cols, max_solutions, timed_out, nodes, dlx_solution,
                   frames, calls>>
    /\ UNCHANGED <<engineVars, buildVars, reportVars, scoreVars, tableVars, solverVars,
                   attemptVars, poolVars>>

\* the column search settles on: the first of the fewest rows (lines
\* 136-143; choose_column stops at a column of size 0, the first of them)
CountColumn(d) == choose_column(d)

\* the column chosen has no row (lines 146-147)
SearchNoRow ==
    /\ dpc = "search"
    /\ ~AtLimit(solutions_count, max_solutions)
    /\ nodes.right[header] # header
    /\ nodes.size[CountColumn(nodes)] = 0
    /\ Returned(frames, solutions_count)
    /\ UNCHANGED <<matrix, num_cols, max_solutions, solutions_count, timed_out, nodes,
                   dlx_solution, frames, calls>>
    /\ UNCHANGED <<engineVars, buildVars, reportVars, scoreVars, tableVars, solverVars,
                   attemptVars, poolVars>>

\* the column chosen is covered and its first row taken (lines 150-153)
SearchColumn ==
    /\ dpc = "search"
    /\ ~AtLimit(solutions_count, max_solutions)
    /\ nodes.right[header] # header
    /\ LET col == CountColumn(nodes)
       IN  /\ nodes.size[col] # 0
           /\ nodes' = cover(nodes, col)
           /\ frames' = Append(frames, [col |-> col, row |-> nodes'.down[col]])
    /\ dpc' = "rows"
    /\ UNCHANGED <<matrix, num_cols, max_solutions, solutions_count, timed_out, num_solutions,
                   dlx_solution, calls>>
    /\ UNCHANGED <<engineVars, buildVars, reportVars, scoreVars, tableVars, solverVars,
                   attemptVars, poolVars>>

\* the loop body up to the recursive call (lines 154-164)
RowTaken ==
    /\ dpc = "rows"
    /\ LET f == frames[Len(frames)]
       IN  /\ f.row # f.col
           /\ dlx_solution' = Append(dlx_solution, nodes.row_id[f.row])
           /\ nodes' = CoverOthers(nodes, f.row, nodes.right[f.row])
    /\ dpc' = "search"
    /\ UNCHANGED <<matrix, num_cols, max_solutions, solutions_count, timed_out, num_solutions,
                   frames, calls>>
    /\ UNCHANGED <<engineVars, buildVars, reportVars, scoreVars, tableVars, solverVars,
                   attemptVars, poolVars>>

\* the loop body behind the recursive call (lines 166-173)
RowLeft ==
    /\ dpc = "back"
    /\ LET f == frames[Len(frames)]
       IN  /\ dlx_solution' = SubSeq(dlx_solution, 1, Len(dlx_solution) - 1)
           /\ nodes' = UncoverOthers(nodes, f.row, nodes.left[f.row])
           /\ frames' = [frames EXCEPT ![Len(frames)].row = nodes'.down[f.row]]
    /\ dpc' = "rows"
    /\ UNCHANGED <<matrix, num_cols, max_solutions, solutions_count, timed_out, num_solutions,
                   calls>>
    /\ UNCHANGED <<engineVars, buildVars, reportVars, scoreVars, tableVars, solverVars,
                   attemptVars, poolVars>>

\* the loop is over: uncover(col) and return (lines 154, 175)
RowsDone ==
    /\ dpc = "rows"
    /\ LET f == frames[Len(frames)]
       IN  /\ f.row = f.col
           /\ nodes' = uncover(nodes, f.col)
    /\ frames' = SubSeq(frames, 1, Len(frames) - 1)
    /\ Returned(frames', solutions_count)
    /\ UNCHANGED <<matrix, num_cols, max_solutions, solutions_count, timed_out, dlx_solution,
                   calls>>
    /\ UNCHANGED <<engineVars, buildVars, reportVars, scoreVars, tableVars, solverVars,
                   attemptVars, poolVars>>

\* the steps of a DLX object once it is constructed and counting
NextDLX ==
    \/ CtorColumn \/ CtorRow
    \/ SearchTimeout \/ SearchLimit \/ SearchCounted \/ SearchNoRow \/ SearchColumn
    \/ RowTaken \/ RowLeft \/ RowsDone

\* the successor and the predecessor of x in the set S of integers taken as
\* a ring in ascending order
RingNext(S, x) == IF \E y \in S : y > x THEN Min({y \in S : y > x}) ELSE Min(S)
RingPrev(S, x) == IF \E y \in S : y < x THEN Max({y \in S : y < x}) ELSE Max(S)

\* the object the constructor leaves for the rows and columns given: node 0
\* the header, nodes 1..ncols the column headers, then the nodes of the rows
\* in the order they are made; a row is a ring of its nodes, a column the
\* ring of its header and its nodes, size the number of the nodes
AsConstructed(rows, ncols) ==
    LET T == Flatten([k \in 1..Len(rows) |->
                        [j \in 1..Len(rows[k]) |-> [row_id |-> k - 1, column |-> rows[k][j] + 1]]])
        last == ncols + Len(T)
        Data == (ncols + 1)..last
        Heads == 0..ncols
        RowOf(x) == {y \in Data : T[y - ncols].row_id = T[x - ncols].row_id}
        ColOf(c) == {c} \cup {y \in Data : T[y - ncols].column = c}
        Col(x) == IF x = header THEN {header}
                  ELSE IF x \in Heads THEN ColOf(x) ELSE ColOf(T[x - ncols].column)
        Row(x) == IF x \in Heads THEN Heads ELSE RowOf(x)
    IN  [left |-> [x \in 0..last |-> RingPrev(Row(x), x)],
         right |-> [x \in 0..last |-> RingNext(Row(x), x)],
         up |-> [x \in 0..last |-> RingPrev(Col(x), x)],
         down |-> [x \in 0..last |-> RingNext(Col(x), x)],
         column |-> [x \in 0..last |-> IF x \in Heads THEN None ELSE T[x - ncols].column],
         row_id |-> [x \in 0..last |-> IF x \in Heads THEN None ELSE T[x - ncols].row_id],
         size |-> [x \in Heads |-> Cardinality(Col(x)) - 1],
         columns |-> [i \in 1..ncols |-> i],
         nrows |-> Len(rows)]

\* the rows and the number of columns the object in use was constructed from
RowsGiven ==
    IF dpc \in {"built", "done"}
    THEN [k \in DOMAIN PLACEMENTS[config] |->
             MatrixRow(SolverConfigs[config], PLACEMENTS[config][k])]
    ELSE matrix

ColsGiven == IF dpc \in {"built", "done"} THEN MatrixColumns(SolverConfigs[config]) ELSE num_cols

\* C34: when a top-level call of DancingLinks.search, or of DLX.search
\* through count_solutions, has returned (exhausted, stopped by the visitor,
\* cut by the solution limit or by the timeout), every left, right, up and
\* down link and every column size has the value it had before the call,
\* which is the value the constructor gave it, and the partial solution is
\* empty.
C34_LinksRestoredOnReturn ==
    dpc \in {"built", "done", "constructed", "counted"} =>
        /\ nodes = AsConstructed(RowsGiven, ColsGiven)
        /\ dlx_solution = << >>

\* count_solutions has returned after the timeout cut a search that had
\* counted a solution and still had rows to try
C34_Witness ==
    /\ dpc = "counted"
    /\ timed_out
    /\ num_solutions = 1
    /\ max_solutions > 1

RECURSIVE CoverSets(_, _, _)
\* the exact covers of the columns 0..ncols-1 not in covered by rows of the
\* matrix disjoint from covered, as sets of row positions
CoverSets(rows, ncols, covered) ==
    IF covered = 0..(ncols - 1) THEN {{}}
    ELSE LET c == Min((0..(ncols - 1)) \ covered)
             fit == {r \in DOMAIN rows : c \in Range(rows[r]) /\ Range(rows[r]) \cap covered = {}}
         IN  UNION {{{r} \cup S : S \in CoverSets(rows, ncols, covered \cup Range(rows[r]))} :
                       r \in fit}

C35_DeadKeysOnlySkipped ==
    [][(phase = "body" /\ n' = n + 1 /\ ~BlackCountInvalid(GLOBALS[cat], solution)) =>
          LET key == black_cells_from_solution(GLOBALS[cat], solution)
          IN  /\ skipped_layouts \subseteq skipped_layouts'
              /\ IF key \in skipped_layouts
                 THEN /\ counter' = counter
                      /\ skipped_count' = skipped_count + 1
                 ELSE /\ Count(counter', key) = Count(counter, key) + 1
                      /\ DOMAIN counter' = DOMAIN counter \cup {key}
                      /\ \A k \in DOMAIN counter \ {key} : counter'[k] = counter[k]
                      /\ skipped_count' = skipped_count]_vars

\* a solution has been skipped for a dead key that was counted twice,
\* while another key is still counted
C35_Witness ==
    /\ skipped_count >= 1
    /\ M = 1
    /\ skipped_layouts # {}
    /\ \E k \in DOMAIN counter : k \notin skipped_layouts

(***************************************************************************)
(* 12. src/test.py: MondrianDLXGenerator.  The source fixes board_size 8,  *)
(*     seven coloured pieces (50 cells), the black shapes 1x3, 1x2, 1x1    *)
(*     and DLX(rows, 72): a column for each of the 64 cells, one for each  *)
(*     of the 7 pieces and one more.  The model runs the same code on 3x3  *)
(*     boards, where the black shapes leave 3 cells: with a piece of 2     *)
(*     cells (cells to spare, as in the source) and with a piece of 3.     *)
(***************************************************************************)
GenConfigs ==
    <<[board_size |-> 3, pieces |-> <<Piece("G_1x2", 1, 2)>>],
      [board_size |-> 3, pieces |-> <<Piece("W_1x3", 1, 3)>>]>>

GenIds == DOMAIN GenConfigs

\* the second argument of DLX(rows, 72): cells, pieces and one more
DlxColumns(G) == G.board_size * G.board_size + Len(G.pieces) + 1

\* black_configs of smart_black_layout: for each black piece its directions
black_configs ==
    <<{{<<0, 0>>, <<0, 1>>, <<0, 2>>}, {<<0, 0>>, <<1, 0>>, <<2, 0>>}},
      {{<<0, 0>>, <<0, 1>>}, {<<0, 0>>, <<1, 0>>}},
      {{<<0, 0>>}}>>

\* _get_unique_orientations: flip or not, 0 to 3 rotations, normalised; the
\* source lists the set in the order of its hash table, the model sorted
UniqueOrientations(cells) ==
    SortTuples({normalise(Rotations(IF flip THEN flip_x(cells) ELSE cells, rot)) :
                   flip \in BOOLEAN, rot \in 0..3})

\* the positions a black shape can take: every base (x, y) of the board
\* with base + max < board_size
BlackPositions(G, shape) ==
    LET max_x == Max({p[1] : p \in shape})
        max_y == Max({p[2] : p \in shape})
    IN  {{<<b[1] + p[1], b[2] + p[2]>> : p \in shape} :
            b \in {c \in (0..(G.board_size - 1)) \X (0..(G.board_size - 1)) :
                      c[1] + max_x < G.board_size /\ c[2] + max_y < G.board_size}}

\* the values smart_black_layout can return: the three black pieces, each in
\* one of its directions at a position free of the pieces before it (the
\* shuffle of all_positions can put any free position first)
smart_black_layout(G) ==
    {a \cup b \cup c :
        a \in UNION {BlackPositions(G, s) : s \in black_configs[1]},
        b \in UNION {BlackPositions(G, s) : s \in black_configs[2]},
        c \in UNION {BlackPositions(G, s) : s \in black_configs[3]}}
    \ {S \in SUBSET ((0..(G.board_size - 1)) \X (0..(G.board_size - 1))) :
          Cardinality(S) # BLACK_COUNT}

RECURSIVE Flood(_, _, _)
\* the BFS of is_connected: the empty cells reached from those in queue
Flood(G, black, reached) ==
    LET more == {c \in (0..(G.board_size - 1)) \X (0..(G.board_size - 1)) :
                    /\ c \notin black
                    /\ c \notin reached
                    /\ \E r \in reached :
                          (c[1] - r[1]) * (c[1] - r[1]) + (c[2] - r[2]) * (c[2] - r[2]) = 1}
    IN  IF more = {} THEN reached ELSE Flood(G, black, reached \cup more)

\* is_connected: the empty cells are one region (or there is none)
is_connected(G, black) ==
    LET empty == ((0..(G.board_size - 1)) \X (0..(G.board_size - 1))) \ black
        start == CHOOSE c \in empty : \A e \in empty : c = e \/ PairLess(c, e)
    IN  empty = {} \/ Flood(G, black, {start}) = empty

\* get_placements: the rows of piece piece_idx in one orientation, dx outer
\* loop, dy inner loop, the positions that meet a black cell left out
OrientationRows(G, black, piece_idx, orientation) ==
    LET max_x == Max({orientation[j][1] : j \in 1..Len(orientation)})
        max_y == Max({orientation[j][2] : j \in 1..Len(orientation)})
        nx == G.board_size - max_x
        ny == G.board_size - max_y
        At(k) == {<<orientation[j][1] + ((k - 1) \div ny), orientation[j][2] + ((k - 1) % ny)>> :
                     j \in 1..Len(orientation)}
        Row(k) == SortInts({p[2] * G.board_size + p[1] : p \in At(k)}
                           \cup {G.board_size * G.board_size + piece_idx})
        keep == {k \in 1..(nx * ny) : At(k) \cap black = {}}
        ks == SortInts(keep)
    IN  [i \in 1..Len(ks) |-> Row(ks[i])]

\* get_placements(black_mask)
get_placements(G, black) ==
    Flatten([i \in 1..Len(G.pieces) |->
               LET os == UniqueOrientations(G.pieces[i].cells)
               IN  Flatten([o \in 1..Len(os) |-> OrientationRows(G, black, i - 1, os[o])])])

\* the layouts smart_black_layout can return, for each generator
BLACK_LAYOUTS == [g \in GenIds |-> smart_black_layout(GenConfigs[g])]

\* max_attempts of _generate_single_internal (5000 in the source)
MaxAttempts == 2

\* _generate_single_internal returned None: the empty set stands for None
\* in result, a layout having six cells
ReturnedNone == <<{}>>

\* an iteration of `for attempt in range(max_attempts)` up to DLX(rows, 72):
\* the layout is drawn and checked, the rows are listed (lines 408-425); it
\* ends at once when no layout was made, when the empty cells are not
\* connected or when there is no row
Attempt ==
    /\ dpc = "attempt"
    /\ attempt < MaxAttempts
    /\ LET G == GenConfigs[generator]
       IN  \/ \* smart_black_layout returned None after its 100 attempts
              /\ attempt' = attempt + 1
              /\ UNCHANGED <<black_cells, matrix, num_cols, nodes, dpc>>
           \/ \E cells \in BLACK_LAYOUTS[generator] :
                 LET rows == get_placements(G, cells)
                 IN  /\ black_cells' = cells
                     /\ IF is_connected(G, cells) /\ rows # << >>
                        THEN /\ matrix' = rows
                             /\ num_cols' = DlxColumns(G)
                             /\ nodes' = EmptyLinks
                             /\ dpc' = "ctor"
                             /\ attempt' = attempt
                        ELSE /\ attempt' = attempt + 1
                             /\ UNCHANGED <<matrix, num_cols, nodes, dpc>>
    /\ dlx_solution' = << >>
    /\ frames' = << >>
    /\ solutions_count' = 0
    /\ max_solutions' = 2
    /\ timed_out' = FALSE
    /\ calls' = 0
    /\ UNCHANGED <<generator, result, num_solutions>>
    /\ UNCHANGED <<engineVars, buildVars, reportVars, scoreVars, tableVars, solverVars, poolVars>>

\* dlx.count_solutions(limit=2, timeout_seconds=2.0) on the object made
CountTwo == dpc = "constructed" /\ black_cells # {} /\ CountSolutions(2)

\* the branch on num_solutions (lines 431-438): a layout with one solution
\* is returned, any other ends the iteration
Outcome ==
    /\ dpc = "counted"
    /\ black_cells # {}
    /\ IF num_solutions = 1
       THEN /\ result' = <<black_cells>>
            /\ dpc' = "returned"
            /\ attempt' = attempt
       ELSE /\ attempt' = attempt + 1
            /\ dpc' = "attempt"
            /\ result' = result
    /\ UNCHANGED <<generator, black_cells, matrix, num_cols, max_solutions, solutions_count,
                   timed_out, num_solutions, nodes, dlx_solution, frames, calls>>
    /\ UNCHANGED <<engineVars, buildVars, reportVars, scoreVars, tableVars, solverVars, poolVars>>

\* the loop is over: return None (line 444)
GiveUp ==
    /\ dpc = "attempt"
    /\ attempt = MaxAttempts
    /\ result' = ReturnedNone
    /\ dpc' = "returned"
    /\ UNCHANGED <<generator, attempt, black_cells, matrix, num_cols, max_solutions,
                   solutions_count, timed_out, num_solutions, nodes, dlx_solution, frames, calls>>
    /\ UNCHANGED <<engineVars, buildVars, reportVars, scoreVars, tableVars, solverVars, poolVars>>

\* MondrianDLXGenerator()._generate_single_internal(seed)
InitGen ==
    /\ NoTable
    /\ NoPool
    /\ NoScore
    /\ NoBuild
    /\ NoEngine
    /\ NoReport
    /\ config = 1 /\ search_stopped = FALSE /\ visited = << >> /\ refused = FALSE
    /\ generator \in GenIds
    /\ attempt = 0
    /\ black_cells = {}
    /\ result = << >>
    /\ matrix = << >>
    /\ num_cols = 0
    /\ nodes = << >>
    /\ dlx_solution = << >>
    /\ frames = << >>
    /\ solutions_count = 0
    /\ max_solutions = 2
    /\ timed_out = FALSE
    /\ num_solutions = None
    /\ calls = 0
    /\ dpc = "attempt"

\* DLX(matrix, num_cols) constructed by a caller of its own
InitDLX ==
    /\ NoTable
    /\ NoPool
    /\ NoScore
    /\ NoBuild
    /\ NoEngine
    /\ NoReport
    /\ config = 1 /\ search_stopped = FALSE /\ visited = << >> /\ refused = FALSE
    /\ generator = 1 /\ attempt = 0 /\ black_cells = {} /\ result = << >>
    /\ \E m \in Matrices : matrix = m.rows /\ num_cols = m.num_cols
    /\ NewDLX

\* TilingSolver and its DancingLinks object (section 7)
InitSolver ==
    /\ NoTable
    /\ NoGen
    /\ NoScore
    /\ NoBuild
    /\ NoEngine
    /\ StartSolver

\* count_solutions called by a caller of its own, with any limit from 0 on
CountAny == black_cells = {} /\ \E lim \in 0..MaxCount : CountSolutions(lim)

(***************************************************************************)
(* The users of the two dancing-links classes: DancingLinks.search with    *)
(* any visitor (section 7); DLX(matrix, num_cols).count_solutions(limit)   *)
(* with any limit and a timeout that may fire at any call of search; and   *)
(* _generate_single_internal, which makes a DLX object for each layout it  *)
(* draws.                                                                  *)
(***************************************************************************)
InitCount == InitSolver \/ InitDLX \/ InitGen

NextCount ==
    \/ AddColumn \/ AddRow \/ CallSearch
    \/ SearchStopped \/ SearchSolution \/ SearchDeadEnd \/ SearchCover
    \/ TryRow \/ AfterCall \/ LoopExit
    \/ CtorColumn \/ CtorRow \/ CountAny
    \/ SearchTimeout \/ SearchLimit \/ SearchCounted \/ SearchNoRow \/ SearchColumn
    \/ RowTaken \/ RowLeft \/ RowsDone
    \/ Attempt \/ CountTwo \/ Outcome \/ GiveUp

SpecCount == InitCount /\ [][NextCount]_vars

\* the layouts for which the rows get_placements lists have exactly one
\* exact cover of the columns of DLX(rows, 72), for each generator
UNIQUE_LAYOUTS ==
    [g \in GenIds |->
        {cells \in BLACK_LAYOUTS[g] :
            Cardinality(CoverSets(get_placements(GenConfigs[g], cells),
                                  DlxColumns(GenConfigs[g]), {})) = 1}]

\* C37: the puzzle generator can succeed: there is a six-cell black layout
\* (one 1x3, one 1x2 and one 1x1 piece) for which the exact-cover instance
\* DLX(get_placements(black_mask), 72) has exactly one solution, so that
\* _generate_single_internal can return a layout instead of None.
C37_SomeLayoutHasOneSolution ==
    dpc \in {"attempt", "returned"} => UNIQUE_LAYOUTS[generator] # {}

\* what the code does: count_solutions returns 0 for every layout drawn and
\* _generate_single_internal returns None
GeneratorNeverSucceeds ==
    /\ (dpc = "counted" /\ black_cells # {}) => num_solutions = 0
    /\ dpc = "returned" => result = ReturnedNone

(***************************************************************************)
(* 13. MondrianDLXGenerator.generate_puzzle (src/test.py lines 445-485):   *)
(* max_workers * 10 tasks are submitted to a process pool, the loop        *)
(* `for future in as_completed(futures, timeout=timeout)` takes the        *)
(* futures as they finish, and the statement after the `with` block        *)
(* returns None.  as_completed raises TimeoutError from the `for`          *)
(* statement, outside the `try` of the loop body, when the timeout has     *)
(* elapsed and a future has not been yielded.                              *)
(***************************************************************************)

\* max_workers * 10, the number of tasks submitted (line 456)
NumFutures == 3

FutureIds == 1..NumFutures

\* what a finished task holds: the None or the tuple that
\* _generate_single_internal returns (lines 440, 444), or an exception
TaskResults == {"none", "layout", "error"}

\* the variables generate_puzzle leaves alone
besideVars == <<engineVars, buildVars, dlxVars, reportVars, scoreVars, tableVars,
                matrix, num_cols, max_solutions, solutions_count, timed_out, num_solutions,
                generator, attempt, black_cells, result>>

\* a worker process finishes task i
TaskDone(i, r) ==
    /\ outcome = "running"
    /\ futures[i] = "pending"
    /\ futures' = [futures EXCEPT ![i] = r]
    /\ UNCHANGED <<consumed, elapsed, outcome>>
    /\ UNCHANGED besideVars

\* `timeout` seconds have passed since as_completed was called
TimeoutElapses ==
    /\ outcome = "running"
    /\ ~elapsed
    /\ elapsed' = TRUE
    /\ UNCHANGED <<futures, consumed, outcome>>
    /\ UNCHANGED besideVars

\* as_completed yields finished future i and the loop body runs (lines
\* 462-482): a true result is returned, None goes to the next future, and
\* an exception of future.result() is logged by the handler of line 481
NextFuture(i) ==
    /\ outcome = "running"
    /\ i \notin consumed
    /\ futures[i] # "pending"
    /\ consumed' = consumed \cup {i}
    /\ outcome' = IF futures[i] = "layout" THEN "layout" ELSE "running"
    /\ UNCHANGED <<futures, elapsed>>
    /\ UNCHANGED besideVars

\* every future has been yielded: the loop and the `with` block end, and
\* line 485 returns None
AllYielded ==
    /\ outcome = "running"
    /\ consumed = FutureIds
    /\ outcome' = "none"
    /\ UNCHANGED <<futures, consumed, elapsed>>
    /\ UNCHANGED besideVars

\* as_completed finds the timeout elapsed with futures left to yield and
\* raises TimeoutError; no handler encloses the `for` statement, so the
\* exception leaves generate_puzzle
RaiseTimeout ==
    /\ outcome = "running"
    /\ elapsed
    /\ consumed # FutureIds
    /\ outcome' = "raised"
    /\ UNCHANGED <<futures, consumed, elapsed>>
    /\ UNCHANGED besideVars

\* generate_puzzle after the submit loop (lines 453-459)
InitPool ==
    /\ NoTable
    /\ NoReport
    /\ NoScore
    /\ NoSearch
    /\ NoBuild
    /\ NoEngine
    /\ matrix = << >>
    /\ num_cols = 0
    /\ max_solutions = 2
    /\ solutions_count = 0
    /\ timed_out = FALSE
    /\ num_solutions = None
    /\ generator = 1
    /\ attempt = 0
    /\ black_cells = {}
    /\ result = << >>
    /\ futures = [i \in FutureIds |-> "pending"]
    /\ consumed = {}
    /\ elapsed = FALSE
    /\ outcome = "running"

NextPool ==
    \/ \E i \in FutureIds, r \in TaskResults : TaskDone(i, r)
    \/ TimeoutElapses
    \/ \E i \in FutureIds : NextFuture(i)
    \/ AllYielded
    \/ RaiseTimeout

SpecPool == InitPool /\ [][NextPool]_vars

\* C38: generate_puzzle returns None, without raising, whenever no worker
\* task has produced a puzzle by the time the timeout elapses; it returns a
\* layout only if some worker task returned one.
C38_NoneWithoutRaising ==
    /\ (/\ outcome \notin {"idle", "running"}
        /\ elapsed
        /\ \A i \in FutureIds : futures[i] # "layout")
            => outcome = "none"
    /\ outcome = "layout" => \E i \in FutureIds : futures[i] = "layout"

\* what the code does: a call that ends without a layout has returned None
\* or has raised TimeoutError, and a layout returned is one a task returned
NoneOrTimeoutError ==
    /\ outcome \in {"running", "none", "layout", "raised"}
    /\ outcome = "raised" => elapsed /\ consumed # FutureIds
    /\ outcome = "none" => \A i \in FutureIds : futures[i] \in {"none", "error"}
    /\ outcome = "layout" => \E i \in consumed : futures[i] = "layout"

\* the three maps of the claim, each followed by normalise
Rotated(shape) == normalise(rotate90(shape))
FlippedX(shape) == normalise(flip_x(shape))
FlippedY(shape) == normalise(flip_y(shape))

\* the set of orientation tuples is closed under the three maps
ClosedOrientations(out) ==
    \A t \in out : {Rotated(Range(t)), FlippedX(Range(t)), FlippedY(Range(t))} \subseteq out

\* shapes that are not rectangles: the non-empty sets of cells of a 3 by 2 grid
GridShapes == (SUBSET ((0..2) \X (0..1))) \ {{}}

\* C39: for every piece, the set returned by all_orientations is closed
\* under rotation and reflection: applying rotate90, flip_x or flip_y to any
\* member and normalising the result gives a member of the same set.  It is
\* checked of ORIENTATIONS as imported, of all_orientations on the cells of
\* every piece, and of all_orientations on every shape of GridShapes.
C39_OrientationsClosed ==
    orientations # << >> =>
        /\ \A i \in 1..Len(orientations) :
              /\ ClosedOrientations(Range(orientations[i]))
              /\ Range(orientations[i]) = all_orientations(BOARD.RAW_PIECES[i].cells)
        /\ \A shape \in GridShapes : ClosedOrientations(all_orientations(shape))

\* C39 witness: ORIENTATIONS is computed; rotate90 takes each orientation of
\* R_3x4 to the other one, and the L of three cells has four orientations
C39_Witness ==
    /\ orientations # << >>
    /\ Len(orientations[1]) = 2
    /\ Rotated(Range(orientations[1][1])) = orientations[1][2]
    /\ Rotated(Range(orientations[1][2])) = orientations[1][1]
    /\ Cardinality(all_orientations({<<0, 0>>, <<1, 0>>, <<0, 1>>})) = 4

====
